---- MODULE Spec2Model ----
(***************************************************************************)
(* A model of the physics layer of Street-Protocol: PhysicsWorld           *)
(* (engine/Physics, kept as src/unnamed/part_001), the vehicle dynamics of  *)
(* Car.update (src/game/GameEntities.ts) and the camera probe of           *)
(* CameraRig.update (src/game/CameraRig.ts).                               *)
(*                                                                         *)
(* Numbers.  The program computes in IEEE doubles.  The model computes in  *)
(* fixed point: a length, a time, a velocity, an angle or a quaternion     *)
(* component r is the integer r * Scale, truncated toward zero after every *)
(* multiplication and division (the model's rounding, where the program    *)
(* rounds to the nearest double).  Masses are whole kilograms and forces   *)
(* whole newtons.  TLC's integers are 32 bits wide, so products and        *)
(* quotients are computed limb by limb (MulFix, DivFix, VecLength).        *)
(***************************************************************************)
EXTENDS Integers, Sequences, FiniteSets, TLC

\* One length unit is Scale model units (0.0001 is the model's resolution).
Scale == 10 * 1000

Abs(a) == IF a < 0 THEN -a ELSE a

Sgn(a) == IF a < 0 THEN -1 ELSE IF a > 0 THEN 1 ELSE 0

Min(a, b) == IF a < b THEN a ELSE b

Max(a, b) == IF a > b THEN a ELSE b

\* const x = v, for a v that is costly to compute and read more than once:
\* Bind(v, LAMBDA x : e) is e with x standing for the value of v.
Bind(v, Op(_)) == Op(v)

\* a * b for two non-negative fixed-point numbers, truncated.
MulPos(a, b) ==
  LET ah == a \div Scale
      al == a % Scale
      bh == b \div Scale
      bl == b % Scale
  IN  ah * bh * Scale + ah * bl + al * bh + (al * bl) \div Scale

\* The fixed-point product a * b (JavaScript's *), truncated toward zero.
MulFix(a, b) == Sgn(a) * Sgn(b) * MulPos(Abs(a), Abs(b))

\* a / b for a >= 0, b > 0, by long division: four decimal digits after the
\* integer part, so that no intermediate exceeds 10 * b.
DivPos(a, b) ==
  LET q0 == a \div b
      r0 == a % b
      d1 == (r0 * 10) \div b
      r1 == (r0 * 10) % b
      d2 == (r1 * 10) \div b
      r2 == (r1 * 10) % b
      d3 == (r2 * 10) \div b
      r3 == (r2 * 10) % b
      d4 == (r3 * 10) \div b
  IN  q0 * Scale + d1 * 1000 + d2 * 100 + d3 * 10 + d4

\* The fixed-point quotient a / b (JavaScript's /) for b # 0, truncated.
DivFix(a, b) == Sgn(a) * Sgn(b) * DivPos(Abs(a), Abs(b))

\* a / n for a fixed-point a and a whole number n > 0, truncated toward zero.
DivInt(a, n) == Sgn(a) * (Abs(a) \div n)

\* a * n / d for a fixed-point a and whole numbers n, d > 0 (a force times a
\* time over a mass), truncated; n * (a % d) stays below 2^31 for the
\* model's values.
MulDivInt(a, n, d) ==
  Sgn(a) * Sgn(n) *
    ((Abs(a) \div d) * Abs(n) + ((Abs(a) % d) * Abs(n)) \div d)

(***************************************************************************)
(* Square roots.  x^2 + y^2 + z^2 does not fit 32 bits, so squares are     *)
(* two-limb numbers hi * 10^8 + lo and the root is found by bisection.     *)
(***************************************************************************)
Limb == Scale * Scale

\* x^2 for x >= 0 as <<hi, lo>>.
Sq2(x) ==
  LET a == x \div Scale
      b == x % Scale
      m == 2 * a * b
      lo0 == (m % Scale) * Scale + b * b
  IN  <<a * a + m \div Scale + lo0 \div Limb, lo0 % Limb>>

Add2(p, q) ==
  LET lo0 == p[2] + q[2]
  IN  <<p[1] + q[1] + lo0 \div Limb, lo0 % Limb>>

Leq2(p, q) == p[1] < q[1] \/ (p[1] = q[1] /\ p[2] <= q[2])

\* The largest r in lo..hi with r^2 <= n (n two-limb), given lo^2 <= n.
RECURSIVE Bisect(_, _, _)
Bisect(n, lo, hi) ==
  IF lo >= hi THEN lo
  ELSE LET mid == (lo + hi + 1) \div 2
       IN  IF Leq2(Sq2(mid), n) THEN Bisect(n, mid, hi)
           ELSE Bisect(n, lo, mid - 1)

\* Math.sqrt of a two-limb sum of squares of model units: the result is the
\* length in model units, truncated.
Sqrt2(n) == Bisect(n, 0, 2097151)

(***************************************************************************)
(* THREE.Vector3                                                           *)
(***************************************************************************)
Vec(x, y, z) == [x |-> x, y |-> y, z |-> z]

ZeroVec == Vec(0, 0, 0)

VecAdd(a, b) == Vec(a.x + b.x, a.y + b.y, a.z + b.z)

VecSub(a, b) == Vec(a.x - b.x, a.y - b.y, a.z - b.z)

\* Vector3.multiplyScalar
VecScale(v, s) == Vec(MulFix(v.x, s), MulFix(v.y, s), MulFix(v.z, s))

\* Vector3.addScaledVector
AddScaledVector(a, v, s) == VecAdd(a, VecScale(v, s))

\* Vector3.dot
Dot(a, b) == MulFix(a.x, b.x) + MulFix(a.y, b.y) + MulFix(a.z, b.z)

\* Vector3.cross
Cross(a, b) ==
  Vec(MulFix(a.y, b.z) - MulFix(a.z, b.y),
      MulFix(a.z, b.x) - MulFix(a.x, b.z),
      MulFix(a.x, b.y) - MulFix(a.y, b.x))

\* Vector3.length
VecLength(v) == Sqrt2(Add2(Add2(Sq2(Abs(v.x)), Sq2(Abs(v.y))), Sq2(Abs(v.z))))

\* Vector3.normalize: divideScalar(length() || 1)
Normalize(v) ==
  LET l == VecLength(v)
      d == IF l = 0 THEN Scale ELSE l
  IN  Vec(DivFix(v.x, d), DivFix(v.y, d), DivFix(v.z, d))

(***************************************************************************)
(* Math.sin and Math.cos, by range reduction to [-pi/2, pi/2] and the      *)
(* Taylor series to x^9 (x^10): the error is below two model units.        *)
(***************************************************************************)
Pi == 31416

\* x reduced to (-pi, pi].
RECURSIVE WrapPi(_)
WrapPi(x) ==
  IF x > Pi THEN WrapPi(x - 2 * Pi)
  ELSE IF x <= -Pi THEN WrapPi(x + 2 * Pi)
  ELSE x

SinSeries(x) ==
  LET x2 == MulFix(x, x)
      t3 == DivInt(MulFix(x, x2), 6)
      t5 == DivInt(MulFix(t3, x2), 20)
      t7 == DivInt(MulFix(t5, x2), 42)
      t9 == DivInt(MulFix(t7, x2), 72)
  IN  x - t3 + t5 - t7 + t9

CosSeries(x) ==
  LET x2 == MulFix(x, x)
      t2 == x2 \div 2
      t4 == MulFix(t2, x2) \div 12
      t6 == MulFix(t4, x2) \div 30
      t8 == MulFix(t6, x2) \div 56
      t10 == MulFix(t8, x2) \div 90
  IN  Scale - t2 + t4 - t6 + t8 - t10

\* Math.sin
Sin(a) ==
  LET x == WrapPi(a)
  IN  IF x > Pi \div 2 THEN SinSeries(Pi - x)
      ELSE IF x < -(Pi \div 2) THEN SinSeries(-Pi - x)
      ELSE SinSeries(x)

\* Math.cos
Cos(a) ==
  LET x == WrapPi(a)
  IN  IF x > Pi \div 2 THEN -CosSeries(Pi - x)
      ELSE IF x < -(Pi \div 2) THEN -CosSeries(-Pi - x)
      ELSE CosSeries(x)

(***************************************************************************)
(* THREE.Quaternion                                                        *)
(***************************************************************************)
Quat(x, y, z, w) == [x |-> x, y |-> y, z |-> z, w |-> w]

\* new THREE.Quaternion(): the identity rotation.
IdentityQuat == Quat(0, 0, 0, Scale)

\* Quaternion.setFromAxisAngle(axis, angle), axis assumed normalized.
SetFromAxisAngle(axis, angle) ==
  LET half == DivInt(angle, 2)
      s == Sin(half)
  IN  Quat(MulFix(axis.x, s), MulFix(axis.y, s), MulFix(axis.z, s), Cos(half))

\* Quaternion.multiply: a * b.
QuatMultiply(a, b) ==
  Quat(MulFix(a.x, b.w) + MulFix(a.w, b.x) + MulFix(a.y, b.z) - MulFix(a.z, b.y),
       MulFix(a.y, b.w) + MulFix(a.w, b.y) + MulFix(a.z, b.x) - MulFix(a.x, b.z),
       MulFix(a.z, b.w) + MulFix(a.w, b.z) + MulFix(a.x, b.y) - MulFix(a.y, b.x),
       MulFix(a.w, b.w) - MulFix(a.x, b.x) - MulFix(a.y, b.y) - MulFix(a.z, b.z))

\* Quaternion.length
QuatLength(q) ==
  Sqrt2(Add2(Add2(Sq2(Abs(q.x)), Sq2(Abs(q.y))),
             Add2(Sq2(Abs(q.z)), Sq2(Abs(q.w)))))

\* Quaternion.normalize: the identity when the length is 0.
QuatNormalize(q) ==
  LET l == QuatLength(q)
  IN  IF l = 0 THEN IdentityQuat
      ELSE Quat(DivFix(q.x, l), DivFix(q.y, l), DivFix(q.z, l), DivFix(q.w, l))

\* Vector3.applyQuaternion: v rotated by q.
ApplyQuaternion(v, q) ==
  LET tx == 2 * (MulFix(q.y, v.z) - MulFix(q.z, v.y))
      ty == 2 * (MulFix(q.z, v.x) - MulFix(q.x, v.z))
      tz == 2 * (MulFix(q.x, v.y) - MulFix(q.y, v.x))
  IN  Vec(v.x + MulFix(q.w, tx) + MulFix(q.y, tz) - MulFix(q.z, ty),
          v.y + MulFix(q.w, ty) + MulFix(q.z, tx) - MulFix(q.x, tz),
          v.z + MulFix(q.w, tz) + MulFix(q.x, ty) - MulFix(q.y, tx))

(***************************************************************************)
(* THREE.Box3                                                              *)
(***************************************************************************)
Box3(mn, mx) == [min |-> mn, max |-> mx]

\* Box3.setFromCenterAndSize: half the size on each side of the centre.
SetFromCenterAndSize(c, size) ==
  LET h == Vec(size.x \div 2, size.y \div 2, size.z \div 2)
  IN  Box3(VecSub(c, h), VecAdd(c, h))

\* Box3.intersectsBox: touching faces count as intersecting.
IntersectsBox(a, b) ==
  ~(\/ b.max.x < a.min.x \/ b.min.x > a.max.x
    \/ b.max.y < a.min.y \/ b.min.y > a.max.y
    \/ b.max.z < a.min.z \/ b.min.z > a.max.z)

\* Box3.intersect of two boxes that intersect (on a clone of a).
Intersect(a, b) ==
  Box3(Vec(Max(a.min.x, b.min.x), Max(a.min.y, b.min.y), Max(a.min.z, b.min.z)),
       Vec(Min(a.max.x, b.max.x), Min(a.max.y, b.max.y), Min(a.max.z, b.max.z)))

\* Box3.getSize
GetSize(b) == VecSub(b.max, b.min)

\* Box3.getCenter
GetCenter(b) ==
  Vec(DivInt(b.min.x + b.max.x, 2), DivInt(b.min.y + b.max.y, 2),
      DivInt(b.min.z + b.max.z, 2))

(***************************************************************************)
(* PhysicsWorld: the bodies and the static colliders, and one sub-step of  *)
(* step(dt) on one body.                                                   *)
(***************************************************************************)
\* GRAVITY = (0, -25, 0)
GRAVITY == Vec(0, -25 * Scale, 0)

\* MAX_STEP_HEIGHT = 0.4
MAX_STEP_HEIGHT == 4000

\* A step loop of three sub-steps instead of four.
stepsThree == 4 - 1

\* const steps = 4
steps == 4

\* The void guard's threshold, position.y < -20.
VoidY == -20 * Scale

\* position.set(0, 10, 0)
VoidRespawn == Vec(0, 10 * Scale, 0)

\* new PhysicsWorld(): bodies = [], staticColliders = [].
NewPhysicsWorld == [bodies |-> <<>>, staticColliders |-> <<>>]

\* addBody: bodies.push(body)
addBody(self, body) == [self EXCEPT !.bodies = Append(@, body)]

\* addStaticCollider: staticColliders.push(box)
addStaticCollider(self, box) == [self EXCEPT !.staticColliders = Append(@, box)]

\* simulate, the void guard: the body is put back at (0, 10, 0) at rest.
VoidGuard(body) ==
  [body EXCEPT !.position = VoidRespawn, !.velocity = ZeroVec]

\* The rotation step without its "body.rotation.normalize()".
IntegrateRotationRaw(rotation, angularVelocity, dt) ==
  LET angle == MulFix(VecLength(angularVelocity), dt)
  IN  IF angle > 1
      THEN QuatMultiply(rotation,
             SetFromAxisAngle(Normalize(angularVelocity), angle))
      ELSE rotation

\* simulate, the rotation step: the orientation composed with the rotation of
\* angle |angularVelocity| * dt about the angular velocity, then normalized.
IntegrateRotation(rotation, angularVelocity, dt) ==
  LET angle == MulFix(VecLength(angularVelocity), dt)
  IN  IF angle > 1
      THEN QuatNormalize(QuatMultiply(rotation,
             SetFromAxisAngle(Normalize(angularVelocity), angle)))
      ELSE rotation

\* simulate, from "Apply Forces" to "body.isGrounded = false".
Integrate(body, dt) ==
  LET damping == IF body.isGrounded THEN 500 ELSE 100
      v == VecScale(AddScaledVector(body.velocity, GRAVITY, dt), Scale - damping)
      w == VecScale(body.angularVelocity, Scale - 2 * dt)
  IN  [body EXCEPT !.velocity = v,
                   !.angularVelocity = w,
                   !.position = AddScaledVector(body.position, v, dt),
                   !.rotation = IntegrateRotation(body.rotation, w, dt),
                   !.isGrounded = FALSE]

\* The floor plane interaction without its "body.position.y = halfHeight".
CapsuleFloorNoClamp(body) ==
  LET halfHeight == body.collider.size.y \div 2
  IN  IF body.position.y < halfHeight
      THEN [body EXCEPT !.velocity.y = IF @ < 0 THEN 0 ELSE @,
                        !.isGrounded = TRUE]
      ELSE body

\* The floor clamp without its "body.isGrounded = true".
CapsuleFloorNoGround(body) ==
  LET halfHeight == body.collider.size.y \div 2
  IN  IF body.position.y < halfHeight
      THEN [body EXCEPT !.position.y = halfHeight,
                        !.velocity.y = IF @ < 0 THEN 0 ELSE @]
      ELSE body

\* resolveCapsule, "1. Floor Plane Interaction".
CapsuleFloor(body) ==
  LET halfHeight == body.collider.size.y \div 2
  IN  IF body.position.y < halfHeight
      THEN [body EXCEPT !.position.y = halfHeight,
                        !.velocity.y = IF @ < 0 THEN 0 ELSE @,
                        !.isGrounded = TRUE]
      ELSE body

\* resolveCapsule, the locals computed once before the loop over the static
\* colliders: playerBottom and capsuleBox.
CapsuleLocals(body) ==
  LET radius == body.collider.size.x
      height == body.collider.size.y
  IN  [playerBottom |-> body.position.y - height \div 2,
       capsuleBox |-> SetFromCenterAndSize(body.position,
                        Vec(radius * 2, height, radius * 2))]

\* The wall branch stopping the capsule's horizontal motion altogether
\* instead of its motion into the wall.
CapsuleWallStop(body, staticBox) ==
  LET radius == body.collider.size.x
      pos == body.position
      clampedX == Max(staticBox.min.x, Min(pos.x, staticBox.max.x))
      clampedZ == Max(staticBox.min.z, Min(pos.z, staticBox.max.z))
      diff == Vec(pos.x - clampedX, 0, pos.z - clampedZ)
      dist == VecLength(diff)
      n == Normalize(diff)
      vDot == Dot(body.velocity, n)
  IN  IF dist < radius /\ dist > 0
      THEN [body EXCEPT
              !.position = AddScaledVector(pos, n, radius - dist),
              !.velocity = IF vDot < 0 THEN Vec(0, @.y, 0) ELSE @]
      ELSE body

\* The wall branch whose push from inside the footprint takes the axis of
\* the larger penetration.
CapsuleWallFarAxis(body, staticBox) ==
  LET radius == body.collider.size.x
      pos == body.position
      center == GetCenter(staticBox)
      clampedX == Max(staticBox.min.x, Min(pos.x, staticBox.max.x))
      clampedZ == Max(staticBox.min.z, Min(pos.z, staticBox.max.z))
      diff == Vec(pos.x - clampedX, 0, pos.z - clampedZ)
      dist == VecLength(diff)
      n == Normalize(diff)
      vDot == Dot(body.velocity, n)
      dx == IF pos.x > center.x THEN staticBox.max.x - (pos.x - radius)
            ELSE (pos.x + radius) - staticBox.min.x
      dz == IF pos.z > center.z THEN staticBox.max.z - (pos.z - radius)
            ELSE (pos.z + radius) - staticBox.min.z
  IN  IF dist < radius /\ dist > 0
      THEN [body EXCEPT
              !.position = AddScaledVector(pos, n, radius - dist),
              !.velocity = IF vDot < 0 THEN AddScaledVector(@, n, -vDot) ELSE @]
      ELSE IF dist = 0
      THEN IF Abs(dx) > Abs(dz)
           THEN [body EXCEPT !.position.x =
                   @ + (IF pos.x > center.x THEN 1 ELSE -1) * Abs(DivInt(dx, 2))]
           ELSE [body EXCEPT !.position.z =
                   @ + (IF pos.z > center.z THEN 1 ELSE -1) * Abs(DivInt(dz, 2))]
      ELSE body

\* resolveCapsule, the wall branch of one loop iteration ("Hard Push").
CapsuleWall(body, staticBox) ==
  LET radius == body.collider.size.x
      pos == body.position
      center == GetCenter(staticBox)
      clampedX == Max(staticBox.min.x, Min(pos.x, staticBox.max.x))
      clampedZ == Max(staticBox.min.z, Min(pos.z, staticBox.max.z))
      diff == Vec(pos.x - clampedX, 0, pos.z - clampedZ)
      dist == VecLength(diff)
      n == Normalize(diff)
      vDot == Dot(body.velocity, n)
      dx == IF pos.x > center.x THEN staticBox.max.x - (pos.x - radius)
            ELSE (pos.x + radius) - staticBox.min.x
      dz == IF pos.z > center.z THEN staticBox.max.z - (pos.z - radius)
            ELSE (pos.z + radius) - staticBox.min.z
  IN  IF dist < radius /\ dist > 0
      THEN [body EXCEPT
              !.position = AddScaledVector(pos, n, radius - dist),
              !.velocity = IF vDot < 0 THEN AddScaledVector(@, n, -vDot) ELSE @]
      ELSE IF dist = 0
      THEN IF Abs(dx) < Abs(dz)
           THEN [body EXCEPT !.position.x =
                   @ + (IF pos.x > center.x THEN 1 ELSE -1) * Abs(DivInt(dx, 2))]
           ELSE [body EXCEPT !.position.z =
                   @ + (IF pos.z > center.z THEN 1 ELSE -1) * Abs(DivInt(dz, 2))]
      ELSE body

\* resolveCapsule, one iteration of the loop over the static colliders; loc
\* holds the locals computed before the loop.
CapsuleVsStatic(body, staticBox, loc) ==
  LET halfHeight == body.collider.size.y \div 2
      stepDiff == staticBox.max.y - loc.playerBottom
  IN  IF ~IntersectsBox(loc.capsuleBox, staticBox) THEN body
      ELSE IF /\ stepDiff > 0
              /\ stepDiff <= MAX_STEP_HEIGHT
              /\ staticBox.max.y < body.position.y + halfHeight - 1000
      THEN [body EXCEPT
              !.position.y = Max(@, staticBox.max.y + halfHeight),
              !.velocity.y = 0,
              !.isGrounded = TRUE]
      ELSE CapsuleWall(body, staticBox)

\* resolveBox, "Ground": the clamp to the ground plane with a bounce.
BoxGround(body) ==
  LET halfHeight == body.collider.size.y
  IN  IF body.position.y < halfHeight
      THEN IF body.velocity.y < 0
           THEN [body EXCEPT !.position.y = halfHeight,
                             !.velocity = Vec(MulFix(@.x, 9900),
                                              MulFix(@.y, -3000),
                                              MulFix(@.z, 9900))]
           ELSE [body EXCEPT !.position.y = halfHeight]
      ELSE body

\* resolveBox, pBox: computed once before the loop over the static colliders.
BoxLocals(body) == [pBox |-> SetFromCenterAndSize(body.position, body.size)]

\* resolveBox, one iteration of the loop over the static colliders.
BoxVsStatic(body, staticBox, loc) ==
  LET sz == GetSize(Intersect(loc.pBox, staticBox))
  IN  IF ~IntersectsBox(loc.pBox, staticBox) THEN body
      ELSE IF sz.x < sz.z /\ sz.x < sz.y
      THEN [body EXCEPT
              !.position.x = @ + sz.x *
                 (IF body.position.x > staticBox.max.x THEN 1 ELSE -1),
              !.velocity.x = MulFix(@, -5000)]
      ELSE IF sz.z < sz.x /\ sz.z < sz.y
      THEN [body EXCEPT
              !.position.z = @ + sz.z *
                 (IF body.position.z > staticBox.max.z THEN 1 ELSE -1),
              !.velocity.z = MulFix(@, -5000)]
      ELSE [body EXCEPT
              !.position.y = @ + sz.y *
                 (IF body.position.y > staticBox.max.y THEN 1 ELSE -1),
              !.velocity.y = 0]

\* raycast's "no result".
Null == [hit |-> FALSE]

\* raycast that stops at the top of a static collider on its way down.
raycastBoxes(self, origin, direction, maxLength) ==
  LET tops == {self.staticColliders[n].max.y : n \in 1..Len(self.staticColliders)}
      below == {y \in tops \cup {0} : y <= origin.y}
      top == IF below = {} THEN 0 ELSE CHOOSE y \in below : \A z \in below : z <= y
  IN  IF direction.y < 0
      THEN LET t == DivFix(top - origin.y, direction.y)
           IN  IF t >= 0 /\ t <= maxLength
               THEN [hit |-> TRUE, dist |-> t,
                     point |-> AddScaledVector(origin, direction, t),
                     normal |-> Vec(0, Scale, 0)]
               ELSE Null
      ELSE Null

\* raycast(origin, direction, maxLength): the ground plane only.
raycast(self, origin, direction, maxLength) ==
  IF direction.y < 0
  THEN LET t == DivFix(-origin.y, direction.y)
       IN  IF t >= 0 /\ t <= maxLength
           THEN [hit |-> TRUE, dist |-> t,
                 point |-> AddScaledVector(origin, direction, t),
                 normal |-> Vec(0, Scale, 0)]
           ELSE Null
  ELSE Null

(***************************************************************************)
(* THREE.Ray.intersectBox and the other arithmetic of the camera.  A       *)
(* quotient by a zero direction component is an infinity, and 0 times an   *)
(* infinity is NaN, which every comparison finds false.                    *)
(***************************************************************************)
Inf == 1024 * 1024 * 1024

NaN == Inf + 1

Gt(x, y) == x # NaN /\ y # NaN /\ x > y

\* x * (1 / dir)
TimesInv(x, dir) ==
  IF dir = 0
  THEN IF x > 0 THEN Inf ELSE IF x < 0 THEN -Inf ELSE NaN
  ELSE MulFix(x, DivFix(Scale, dir))

\* The ray parameters at which the ray enters and leaves the slab [lo, hi]
\* of one axis.
Slab(lo, hi, o, dir) ==
  IF dir >= 0
  THEN [near |-> TimesInv(lo - o, dir), far |-> TimesInv(hi - o, dir)]
  ELSE [near |-> TimesInv(hi - o, dir), far |-> TimesInv(lo - o, dir)]

\* ray.intersectBox(box, target): the point where the ray enters the box
\* (where it leaves it, for an origin inside), or null.
intersectBox(origin, direction, box) ==
  Bind(Slab(box.min.x, box.max.x, origin.x, direction.x), LAMBDA sx :
  Bind(Slab(box.min.y, box.max.y, origin.y, direction.y), LAMBDA sy :
  Bind(Slab(box.min.z, box.max.z, origin.z, direction.z), LAMBDA sz :
  Bind(IF Gt(sy.near, sx.near) \/ sx.near = NaN THEN sy.near ELSE sx.near,
       LAMBDA tmin1 :
  Bind(IF Gt(sx.far, sy.far) \/ sx.far = NaN THEN sy.far ELSE sx.far,
       LAMBDA tmax1 :
  Bind(IF Gt(sz.near, tmin1) \/ tmin1 = NaN THEN sz.near ELSE tmin1,
       LAMBDA tmin2 :
  Bind(IF Gt(tmax1, sz.far) \/ tmax1 = NaN THEN sz.far ELSE tmax1,
       LAMBDA tmax2 :
    IF Gt(sx.near, sy.far) \/ Gt(sy.near, sx.far) THEN Null
    ELSE IF Gt(tmin1, sz.far) \/ Gt(sz.near, tmax1) THEN Null
    ELSE IF Gt(0, tmax2) THEN Null
    ELSE [hit |-> TRUE,
          point |-> AddScaledVector(origin, direction,
                      IF tmin2 # NaN /\ tmin2 >= 0 THEN tmin2 ELSE tmax2)]
  )))))))

\* Math.exp(-x) for 0 <= x < 1, by its Taylor series to x^6.
ExpNeg(x) ==
  LET t2 == MulFix(x, x) \div 2
      t3 == MulFix(t2, x) \div 3
      t4 == MulFix(t3, x) \div 4
      t5 == MulFix(t4, x) \div 5
      t6 == MulFix(t5, x) \div 6
  IN  Scale - x + t2 - t3 + t4 - t5 + t6

\* Math.pow(0.001, dt) = exp(-ln(1000) * dt)
Pow001(dt) == ExpNeg(MulFix(69078, dt))

\* Vector3.lerp
Lerp(a, v, alpha) ==
  Vec(a.x + MulFix(v.x - a.x, alpha), a.y + MulFix(v.y - a.y, alpha),
      a.z + MulFix(v.z - a.z, alpha))

(***************************************************************************)
(* CameraRig.update                                                        *)
(***************************************************************************)
\* The third-person orbit: camOffset, from the view angles.
CamOffset(inputs) ==
  LET yaw == inputs.viewX
      pitch == Max(-5000, Min(Scale, inputs.viewY))
      dist == 6 * Scale
      hOffset == MulFix(Sin(pitch), dist)
      rOffset == MulFix(Cos(pitch), dist)
  IN  Vec(MulFix(Sin(yaw), rOffset), hOffset + 2 * Scale,
          MulFix(Cos(yaw), rOffset))

\* The collision probe: the distances from rayStart to the static colliders
\* the ray meets.
ProbeHits(world, rayStart, direction) ==
  UNION {Bind(intersectBox(rayStart, direction, world.staticColliders[n]),
              LAMBDA h : IF h.hit THEN {VecLength(VecSub(rayStart, h.point))}
                         ELSE {}) :
           n \in 1..Len(world.staticColliders)}

\* The third-person branch up to "Apply": desiredPos after the probe.
DesiredPos(targetPos, inputs, world) ==
  Bind(VecAdd(targetPos, CamOffset(inputs)), LAMBDA unobstructed :
  Bind(Normalize(VecSub(unobstructed, targetPos)), LAMBDA direction :
  Bind(VecLength(VecSub(targetPos, unobstructed)), LAMBDA fullDist :
  Bind(VecAdd(targetPos, Vec(0, Scale, 0)), LAMBDA rayStart :
  Bind(ProbeHits(world, rayStart, direction) \cup {fullDist}, LAMBDA ds :
  Bind(CHOOSE d \in ds : \A e \in ds : d <= e, LAMBDA hitDist :
    IF hitDist < fullDist
    THEN VecAdd(rayStart, VecScale(direction, hitDist - 2000))
    ELSE unobstructed
  ))))))

\* update in FIRST_PERSON mode.
FirstPerson(self, targetPos, targetRot, inputs, isVehicle) ==
  Bind(IF isVehicle THEN Vec(-3000, 7000, 0) ELSE Vec(0, 17000, 0),
       LAMBDA offset :
  Bind(VecAdd(ApplyQuaternion(offset, targetRot), targetPos), LAMBDA headPos :
  Bind(QuatMultiply(
         QuatMultiply(targetRot,
           SetFromAxisAngle(Vec(0, Scale, 0), inputs.viewX)),
         SetFromAxisAngle(Vec(Scale, 0, 0), -inputs.viewY)), LAMBDA camQ :
  Bind(VecAdd(headPos, ApplyQuaternion(Vec(0, 0, -10 * Scale), camQ)),
       LAMBDA lookPoint :
  Bind(Lerp(self.currentPos, headPos, 5000), LAMBDA pos :
    [self EXCEPT !.currentPos = pos,
                 !.currentLookAt = Lerp(@, lookPoint, 5000),
                 !.camera = [position |-> pos,
                             orientation |-> [quaternion |-> camQ]]]
  )))))

\* update in THIRD_PERSON mode; camera.lookAt(p) leaves the camera looking
\* from its position at p.
ThirdPerson(self, dt, targetPos, inputs, world) ==
  Bind(Scale - Pow001(dt), LAMBDA alpha :
  Bind(Lerp(self.currentPos, DesiredPos(targetPos, inputs, world), alpha),
       LAMBDA pos :
  Bind(Lerp(self.currentLookAt, VecAdd(targetPos, Vec(0, Scale, 0)), alpha),
       LAMBDA at :
    [self EXCEPT !.currentPos = pos,
                 !.currentLookAt = at,
                 !.camera = [position |-> pos,
                             orientation |-> [lookAt |-> at]]]
  )))

\* cameraRig.update(dt, targetPos, targetRot, inputs, world, isVehicle)
update(self, dt, targetPos, targetRot, inputs, world, isVehicle) ==
  IF self.mode = "FIRST_PERSON"
  THEN FirstPerson(self, targetPos, targetRot, inputs, isVehicle)
  ELSE ThirdPerson(self, dt, targetPos, inputs, world)

(***************************************************************************)
(* The bodies the entities register.                                       *)
(***************************************************************************)
\* Player's constructor: a capsule of radius 0.35 and height 1.7, 75 kg.
PlayerBody(startPos) ==
  [mass |-> 75,
   position |-> startPos,
   velocity |-> ZeroVec,
   rotation |-> IdentityQuat,
   angularVelocity |-> ZeroVec,
   size |-> Vec(5000, 18000, 5000),
   collider |-> [type |-> "capsule", size |-> Vec(3500, 17000, 0)],
   isGrounded |-> FALSE,
   isSleeping |-> FALSE]

\* A player standing on the ground at (x, z), moving with velocity v.
Standing(x, z, v) ==
  [PlayerBody(Vec(x, 8500, z)) EXCEPT !.velocity = v, !.isGrounded = TRUE]

\* CAR_SPORT, CAR_TRUCK, CAR_SEDAN: lengths and coefficients in fixed point,
\* mass in kilograms, forces in newtons.
CAR_SPORT ==
  [name |-> "Neon Blade", mass |-> 1400, enginePower |-> 18000,
   brakeForce |-> 450, drag |-> 3000, suspensionLength |-> 4000,
   suspensionStiffness |-> 60000, suspensionDamping |-> 5000,
   frictionLat |-> 20, wheelRadius |-> 3300,
   width |-> 19000, length |-> 44000, height |-> 12000, type |-> "sport"]

CAR_TRUCK ==
  [name |-> "Goliath", mass |-> 2800, enginePower |-> 25000,
   brakeForce |-> 600, drag |-> 6000, suspensionLength |-> 6000,
   suspensionStiffness |-> 80000, suspensionDamping |-> 6000,
   frictionLat |-> 15, wheelRadius |-> 5000,
   width |-> 22000, length |-> 55000, height |-> 20000, type |-> "truck"]

CAR_SEDAN ==
  [name |-> "Executive", mass |-> 1600, enginePower |-> 14000,
   brakeForce |-> 350, drag |-> 3500, suspensionLength |-> 5000,
   suspensionStiffness |-> 45000, suspensionDamping |-> 3500,
   frictionLat |-> 16, wheelRadius |-> 3500,
   width |-> 18000, length |-> 46000, height |-> 14000, type |-> "sedan"]

\* Car's constructor: a box whose collider size holds the half extents.
CarBody(startPos, config) ==
  [mass |-> config.mass,
   position |-> startPos,
   velocity |-> ZeroVec,
   rotation |-> IdentityQuat,
   angularVelocity |-> ZeroVec,
   size |-> Vec(config.length, config.height, config.width),
   collider |-> [type |-> "box",
                 size |-> Vec(config.length \div 2, config.height \div 2,
                              config.width \div 2)],
   isGrounded |-> TRUE,
   isSleeping |-> FALSE]

(***************************************************************************)
(* Car.  Forces are whole newtons; a force vector holds newtons.           *)
(***************************************************************************)
\* InputManager's initial state: no key held, the view straight.
NoInputs ==
  [forward |-> FALSE, backward |-> FALSE, left |-> FALSE, right |-> FALSE,
   brake |-> FALSE, jump |-> FALSE, action |-> FALSE, run |-> FALSE,
   camToggle |-> FALSE, shoot |-> FALSE,
   mouseX |-> 0, mouseY |-> 0, viewX |-> 0, viewY |-> 0]

\* new Car(id, startPos, config, soundMgr), whose body is bodies[bi]; the
\* wheels are not there until the model has loaded.
NewCar(bi, startPos, config) ==
  [config |-> config,
   body |-> bi,
   engineOn |-> FALSE,
   steeringAngle |-> 0,
   speed |-> 0,
   wheels |-> <<>>,
   mesh |-> [position |-> startPos, quaternion |-> IdentityQuat],
   engineRPM |-> 0]

\* loadModel's callback: the four wheels of the model, as the model has them.
LoadedWheels ==
  [n \in 1..4 |-> [positionY |-> 0, rotationX |-> 0, rotationY |-> 0]]

\* update's mountPoints
MountPoints ==
  <<Vec(-8500, 2000, -13500), Vec(8500, 2000, -13500),
    Vec(-8500, 2000, 13500), Vec(8500, 2000, 13500)>>

\* unit.multiplyScalar(newtons): a force of that magnitude along unit.
Force(unit, newtons) ==
  Vec(MulDivInt(unit.x, newtons, Scale), MulDivInt(unit.y, newtons, Scale),
      MulDivInt(unit.z, newtons, Scale))

\* update's driver controls: throttle, steerInput and brake.
Controls(car, inputs) ==
  IF car.engineOn
  THEN [throttle |-> IF inputs.backward THEN -5000
                     ELSE IF inputs.forward THEN Scale ELSE 0,
        steerInput |-> IF inputs.right THEN -1
                       ELSE IF inputs.left THEN 1 ELSE 0,
        brake |-> IF inputs.brake THEN 1 ELSE 0]
  ELSE [throttle |-> 0, steerInput |-> 0, brake |-> 0]

\* The steering angle following its target at the rate 50 * dt.
SteerFast(car, speed, steerInput, dt) ==
  LET maxSteer == Pi \div 4
      steerFactor == DivFix(Scale, Scale + DivInt(speed, 20))
      targetSteer == MulFix(steerInput * maxSteer, steerFactor)
  IN  car.steeringAngle + MulFix((targetSteer - car.steeringAngle) * 50, dt)

\* update's new steering angle.
Steer(car, speed, steerInput, dt) ==
  LET maxSteer == Pi \div 4
      steerFactor == DivFix(Scale, Scale + DivInt(speed, 20))
      targetSteer == MulFix(steerInput * maxSteer, steerFactor)
  IN  car.steeringAngle + MulFix((targetSteer - car.steeringAngle) * 5, dt)

\* The suspension force of a wheel whose ray hit at distance travel plus
\* the wheel's radius, the mount moving at velUp along the ray.
SuspensionForce(cfg, travel, velUp) ==
  LET compression ==
        Max(0, Min(Scale, Scale - DivFix(travel, cfg.suspensionLength)))
      springF == MulDivInt(compression, cfg.suspensionStiffness, Scale)
      dampF == MulDivInt(-velUp, cfg.suspensionDamping, Scale)
  IN  Max(0, springF + dampF)

\* The engine's force on every wheel, driven or not.
EngineForceAllWheels(cfg, isFront, throttle, vForward) ==
  IF Abs(throttle) > 100
  THEN MulDivInt(Scale - Min(DivInt(Abs(vForward), 60), 8000),
                 MulDivInt(throttle, cfg.enginePower, Scale), Scale)
  ELSE 0

\* The engine's part of longForceMag: throttle * enginePower * torqueFactor
\* on a driven wheel.
EngineForce(cfg, isFront, throttle, vForward) ==
  IF Abs(throttle) > 100 /\ (~isFront \/ cfg.type = "truck")
  THEN MulDivInt(Scale - Min(DivInt(Abs(vForward), 60), 8000),
                 MulDivInt(throttle, cfg.enginePower, Scale), Scale)
  ELSE 0

\* The "if (hit)" block of the loop's pass for wheel n.
WheelHit(car, body, acc, n, dt, inputs, ctl, steeringAngle, mountWorld, down, hit) ==
  LET cfg == car.config
      isFront == n <= 2
      travel == hit.dist - cfg.wheelRadius
  IN
  Bind(VecAdd(acc.velocity,
              Cross(body.angularVelocity, VecSub(mountWorld, body.position))),
       LAMBDA pointVel :
  Bind(SuspensionForce(cfg, travel, Dot(pointVel, down)),
       LAMBDA suspensionForce :
  Bind(IF isFront
       THEN QuatMultiply(body.rotation,
              SetFromAxisAngle(Vec(0, Scale, 0), steeringAngle))
       ELSE body.rotation, LAMBDA wheelRot :
  Bind(ApplyQuaternion(Vec(0, 0, -Scale), wheelRot), LAMBDA wheelForward :
  Bind(ApplyQuaternion(Vec(Scale, 0, 0), wheelRot), LAMBDA wheelRight :
  Bind(Dot(pointVel, wheelForward), LAMBDA vForward :
  Bind(Dot(pointVel, wheelRight), LAMBDA vRight :
  Bind(MulDivInt(-vRight, suspensionForce, 2000) * cfg.frictionLat,
       LAMBDA grip :
  Bind(EngineForce(cfg, isFront, ctl.throttle, vForward), LAMBDA engineF :
    LET latForceMag ==
          IF Abs(vRight) > 5 * Scale /\ inputs.brake THEN DivInt(grip, 2)
          ELSE grip
        longForceMag ==
          IF car.engineOn
          THEN IF ctl.brake > 0
               THEN engineF - Sgn(vForward) * cfg.brakeForce * ctl.brake * 20
               ELSE engineF
          ELSE MulDivInt(-vForward, 50, Scale)
        hardStop == car.engineOn /\ ctl.brake > 0 /\ Abs(vForward) < Scale
    IN  [velocity |-> IF hardStop THEN VecScale(acc.velocity, 9000)
                      ELSE acc.velocity,
         impulses |-> acc.impulses \o
            << [pos |-> mountWorld, force |-> Force(down, -suspensionForce)],
               [pos |-> mountWorld,
                force |-> Force(wheelRight, DivInt(latForceMag, Scale))],
               [pos |-> mountWorld,
                force |-> Force(wheelForward, longForceMag)] >>,
         wheels |-> IF n \in DOMAIN acc.wheels
                    THEN [acc.wheels EXCEPT
                            ![n].positionY = MountPoints[n].y - travel,
                            ![n].rotationY = IF isFront THEN steeringAngle
                                             ELSE @,
                            ![n].rotationX =
                               @ + DivFix(MulFix(vForward, dt),
                                          cfg.wheelRadius)]
                    ELSE acc.wheels,
         log |-> Append(acc.log,
                   [hit |-> TRUE, origin |-> mountWorld, down |-> down,
                    suspensionForce |-> suspensionForce,
                    vForward |-> vForward, longForceMag |-> longForceMag])]
  )))))))))

\* The pass for wheel n with a missing hit taken for a hit at the end of
\* the ray.
WheelNoMiss(car, body, acc, n, dt, inputs, ctl, steeringAngle, world) ==
  Bind(VecAdd(ApplyQuaternion(MountPoints[n], body.rotation), body.position),
       LAMBDA mountWorld :
  Bind(ApplyQuaternion(Vec(0, -Scale, 0), body.rotation), LAMBDA down :
  Bind(raycast(world, mountWorld, down,
               car.config.suspensionLength + car.config.wheelRadius),
       LAMBDA hit :
    WheelHit(car, body, acc, n, dt, inputs, ctl, steeringAngle, mountWorld,
             down,
             IF hit.hit THEN hit
             ELSE [hit |-> TRUE,
                   dist |-> car.config.suspensionLength
                              + car.config.wheelRadius])
  )))

\* One pass of update's loop over the mount points, for wheel n.  acc holds
\* what the passes change: the body's velocity, the impulses pushed so far
\* and the wheels of the model; and, in log, the locals of each pass (the
\* ray, whether it hit, suspensionForce, vForward and longForceMag).
Wheel(car, body, acc, n, dt, inputs, ctl, steeringAngle, world) ==
  Bind(VecAdd(ApplyQuaternion(MountPoints[n], body.rotation), body.position),
       LAMBDA mountWorld :
  Bind(ApplyQuaternion(Vec(0, -Scale, 0), body.rotation), LAMBDA down :
  Bind(raycast(world, mountWorld, down,
               car.config.suspensionLength + car.config.wheelRadius),
       LAMBDA hit :
    IF hit.hit
    THEN WheelHit(car, body, acc, n, dt, inputs, ctl, steeringAngle,
                  mountWorld, down, hit)
    ELSE [acc EXCEPT
            !.wheels =
              IF n \in DOMAIN acc.wheels
              THEN [acc.wheels EXCEPT
                      ![n].positionY =
                         MountPoints[n].y - car.config.suspensionLength]
              ELSE acc.wheels,
            !.log = Append(@,
                      [hit |-> FALSE, origin |-> mountWorld, down |-> down,
                       suspensionForce |-> 0, vForward |-> 0,
                       longForceMag |-> 0])]
  )))

\* update's "mountPoints.forEach": the passes for the wheels from the n-th on.
RECURSIVE Wheels(_, _, _, _, _, _, _, _, _)
Wheels(car, body, acc, n, dt, inputs, ctl, steeringAngle, world) ==
  IF n > Len(MountPoints) THEN acc
  ELSE Wheels(car, body,
              Wheel(car, body, acc, n, dt, inputs, ctl, steeringAngle, world),
              n + 1, dt, inputs, ctl, steeringAngle, world)

\* The impulses applied to a body that each of them also moves.
RECURSIVE ApplyImpulsesMoving(_, _, _, _)
ApplyImpulsesMoving(body, impulses, n, dt) ==
  IF n > Len(impulses) THEN body
  ELSE LET imp == impulses[n]
           r == VecSub(imp.pos, body.position)
           dv == Vec(MulDivInt(dt, imp.force.x, body.mass),
                     MulDivInt(dt, imp.force.y, body.mass),
                     MulDivInt(dt, imp.force.z, body.mass))
           dw == Cross(r, Vec(MulDivInt(dt, imp.force.x, body.mass * 2),
                              MulDivInt(dt, imp.force.y, body.mass * 2),
                              MulDivInt(dt, imp.force.z, body.mass * 2)))
       IN  ApplyImpulsesMoving(
             [body EXCEPT !.velocity = VecAdd(@, dv),
                          !.angularVelocity = VecAdd(@, dw),
                          !.position = VecAdd(@, dv)],
             impulses, n + 1, dt)

\* update's "impulses.forEach": the impulses from the n-th on, applied to the
\* body's velocity and angular velocity.
RECURSIVE ApplyImpulses(_, _, _, _)
ApplyImpulses(body, impulses, n, dt) ==
  IF n > Len(impulses) THEN body
  ELSE LET imp == impulses[n]
           r == VecSub(imp.pos, body.position)
           dv == Vec(MulDivInt(dt, imp.force.x, body.mass),
                     MulDivInt(dt, imp.force.y, body.mass),
                     MulDivInt(dt, imp.force.z, body.mass))
           dw == Cross(r, Vec(MulDivInt(dt, imp.force.x, body.mass * 2),
                              MulDivInt(dt, imp.force.y, body.mass * 2),
                              MulDivInt(dt, imp.force.z, body.mass * 2)))
       IN  ApplyImpulses(
             [body EXCEPT !.velocity = VecAdd(@, dv),
                          !.angularVelocity = VecAdd(@, dw)],
             impulses, n + 1, dt)

\* car.update(dt, inputs, world): the car and its body afterwards, with
\* the impulses it applied and the locals of its wheel passes.
carUpdate(car, body, dt, inputs, world) ==
  Bind(VecLength(body.velocity), LAMBDA speed :
  Bind(Controls(car, inputs), LAMBDA ctl :
  Bind(Steer(car, speed, ctl.steerInput, dt), LAMBDA steeringAngle :
  Bind(Wheels(car, body,
              [velocity |-> body.velocity, impulses |-> <<>>,
               wheels |-> car.wheels, log |-> <<>>],
              1, dt, inputs, ctl, steeringAngle, world), LAMBDA acc :
    LET forwardSpeed ==
          Dot(body.velocity,
              ApplyQuaternion(Vec(0, 0, -Scale), body.rotation))
        pushed == ApplyImpulses([body EXCEPT !.velocity = acc.velocity],
                                acc.impulses, 1, dt)
        drag == -MulFix(MulFix(car.config.drag, speed), dt)
    IN  [car |-> [car EXCEPT
                    !.speed = speed,
                    !.steeringAngle = steeringAngle,
                    !.engineRPM = IF car.engineOn THEN Abs(forwardSpeed) * 5
                                  ELSE @,
                    !.wheels = acc.wheels,
                    !.mesh = [position |-> body.position,
                              quaternion |-> body.rotation]],
         body |-> [pushed EXCEPT
                     !.velocity = AddScaledVector(@, @, drag)],
         impulses |-> acc.impulses,
         log |-> acc.log]
  ))))

(***************************************************************************)
(* WorldManager: the streaming of chunks.  self is the manager with its    *)
(* physics world: [physics, chunks, playerPos, pedestrians].  Lengths are  *)
(* in metres here and scaled where a box or a body is made; r is what      *)
(* Math.random() returns during the call.                                  *)
(***************************************************************************)
chunkSize == 80

loadDistance == 2

\* new Pedestrian(id, startPos, faction).body
PedestrianBody(startPos) ==
  [mass |-> 70,
   position |-> startPos,
   velocity |-> ZeroVec,
   rotation |-> IdentityQuat,
   angularVelocity |-> ZeroVec,
   size |-> Vec(5000, 18000, 5000),
   collider |-> [type |-> "capsule", size |-> Vec(3500, 17000, 0)],
   isGrounded |-> FALSE,
   isSleeping |-> FALSE]

\* addStaticCollider(new Box3().setFromObject(mesh)) for a mesh of extents
\* sx, sy, sz centred at (x, y, z).
AddMeshCollider(self, x, y, z, sx, sy, sz) ==
  [self EXCEPT !.physics =
     addStaticCollider(@, SetFromCenterAndSize(Vec(x, y, z), Vec(sx, sy, sz)))]

\* addStreetLight: the pole, a cylinder of radius 0.2 and height 8.
addStreetLight(self, x, z) ==
  AddMeshCollider(self, x * Scale, 4 * Scale, z * Scale, 4000, 8 * Scale, 4000)

\* buildRoads: its static colliders are the street lights.
buildRoads(self, x, z, biome) ==
  IF biome \in {"city", "suburbs"}
  THEN addStreetLight(
         addStreetLight(
           addStreetLight(
             addStreetLight(self, x + 5, z + chunkSize \div 2 + 10),
             x + chunkSize - 5, z + chunkSize \div 2 - 10),
           x + chunkSize \div 2 - 10, z + 5),
         x + chunkSize \div 2 + 10, z + chunkSize - 5)
  ELSE self

\* buildCityBlock: up to four buildings of 25 x height x 25.
buildCityBlock(self, x, z, cx, cz) ==
  LET Building(s, px, pz, n) ==
        Bind(Sin((cx * px + cz * pz + n) * Scale), LAMBDA hash :
        Bind(20 * Scale + Abs(hash) * 60, LAMBDA height :
          IF hash > -5000
          THEN AddMeshCollider(s,
                 (x + chunkSize \div 2 + px * (chunkSize \div 4)) * Scale,
                 height \div 2,
                 (z + chunkSize \div 2 + pz * (chunkSize \div 4)) * Scale,
                 25 * Scale, height, 25 * Scale)
          ELSE s))
  IN  Building(Building(Building(Building(self, 1, 1, 0), 1, -1, 1),
                        -1, 1, 2), -1, -1, 3)

\* buildIndustrial: two tanks, cylinders of radius 8 and height 12.
buildIndustrial(self, x, z) ==
  LET Tank(s, px, pz) ==
        AddMeshCollider(s, (x + chunkSize \div 2 + px * 20) * Scale, 6 * Scale,
                        (z + chunkSize \div 2 + pz * 20) * Scale,
                        16 * Scale, 12 * Scale, 16 * Scale)
  IN  Tank(Tank(self, 1, 1), -1, -1)

\* buildSuburbs: a house of 12 x 8 x 12 where Math.random() > 0.3, a tree
\* (no collider) elsewhere.
buildSuburbs(self, x, z, r) ==
  LET House(s, px, pz) ==
        IF r > 3000
        THEN AddMeshCollider(s, (x + chunkSize \div 2 + px * 20) * Scale,
                             4 * Scale,
                             (z + chunkSize \div 2 + pz * 20) * Scale,
                             12 * Scale, 8 * Scale, 12 * Scale)
        ELSE s
  IN  House(House(House(House(self, 1, 1), 1, -1), -1, 1), -1, -1)

\* generateChunk's pedestrians: three, each at a random place of the chunk
\* and 2 above the ground; their bodies are registered.
SpawnPedestrians(self, xOff, zOff, r) ==
  LET Spawn(s) ==
        [s EXCEPT
           !.physics = addBody(@,
              PedestrianBody(Vec(xOff * Scale + r * chunkSize, 2 * Scale,
                                 zOff * Scale + r * chunkSize))),
           !.pedestrians = Append(@, Len(s.physics.bodies) + 1)]
  IN  Spawn(Spawn(Spawn(self)))

\* generateChunk(cx, cz)
generateChunk(self, cx, cz, r) ==
  LET xOff == cx * chunkSize
      zOff == cz * chunkSize
      isCanal == Abs(cz) % 3 = 2
      biome == IF cx < -1 THEN "industrial"
               ELSE IF cx > 1 THEN "suburbs" ELSE "city"
      mid == chunkSize \div 2
      bankL == AddMeshCollider(self, (xOff + mid) * Scale, 5000,
                 (zOff + mid - 11) * Scale, chunkSize * Scale, 2 * Scale,
                 2 * Scale)
      bankR == AddMeshCollider(bankL, (xOff + mid) * Scale, 5000,
                 (zOff + mid + 11) * Scale, chunkSize * Scale, 2 * Scale,
                 2 * Scale)
      bridge == AddMeshCollider(bankR, (xOff + mid) * Scale, 15000,
                  (zOff + mid) * Scale, 10 * Scale, 5000, 24 * Scale)
      roads == buildRoads(self, xOff, zOff, biome)
      built ==
        IF isCanal /\ biome # "suburbs"
        THEN IF cx % 2 = 0 THEN bridge ELSE bankR
        ELSE IF biome = "city"
        THEN SpawnPedestrians(buildCityBlock(roads, xOff, zOff, cx, cz),
                              xOff, zOff, r)
        ELSE IF biome = "industrial" THEN buildIndustrial(roads, xOff, zOff)
        ELSE buildSuburbs(roads, xOff, zOff, r)
  IN  [built EXCEPT !.chunks = @ \cup {<<cx, cz>>}]

\* refreshChunks' "needed.forEach": the needed chunks from the n-th on, in
\* the order they were added to the set, generated where missing.
RECURSIVE GenerateNeeded(_, _, _, _, _)
GenerateNeeded(self, cx, cz, n, r) ==
  LET side == 2 * loadDistance + 1
      key == <<cx - loadDistance + (n \div side),
               cz - loadDistance + (n % side)>>
  IN  IF n >= side * side THEN self
      ELSE GenerateNeeded(
             IF key \in self.chunks THEN self
             ELSE generateChunk(self, key[1], key[2], r),
             cx, cz, n + 1, r)

\* refreshChunks with an unloaded chunk's static colliders taken out of the
\* physics world again.
refreshChunksPruning(self, cx, cz, r) ==
  LET needed == {<<cx + x, cz + z>> :
                   x \in -loadDistance..loadDistance,
                   z \in -loadDistance..loadDistance}
      kept == SelectSeq(self.physics.staticColliders,
                LAMBDA box :
                  <<GetCenter(box).x \div (chunkSize * Scale),
                    GetCenter(box).z \div (chunkSize * Scale)>> \in needed)
  IN  GenerateNeeded(
        [self EXCEPT !.chunks = @ \cap needed,
                     !.physics.staticColliders = kept], cx, cz, 0, r)

\* refreshChunks(cx, cz): the chunks that are not needed leave the scene and
\* the map; the needed ones that are missing are generated.
refreshChunks(self, cx, cz, r) ==
  LET needed == {<<cx + x, cz + z>> :
                   x \in -loadDistance..loadDistance,
                   z \in -loadDistance..loadDistance}
  IN  GenerateNeeded([self EXCEPT !.chunks = @ \cap needed], cx, cz, 0, r)

\* WorldManager.update(dt, playerPos)
worldUpdate(self, playerPos, r) ==
  LET cx == playerPos.x \div (chunkSize * Scale)
      cz == playerPos.z \div (chunkSize * Scale)
  IN  IF <<cx, cz>> # self.playerPos
      THEN refreshChunks([self EXCEPT !.playerPos = <<cx, cz>>], cx, cz, r)
      ELSE self

(***************************************************************************)
(* InputManager, Player and the mode switch of the frame.  The player's    *)
(* mesh only ever turns about the vertical: its quaternion is held as the  *)
(* angle of that turn, its heading.                                        *)
(***************************************************************************)
\* mapKeys setting and clearing the triggers with the key, as it does the
\* held keys.
mapKeysLevel(state, code, value) ==
  CASE code = "KeyW" -> [state EXCEPT !.forward = value]
    [] code = "KeyS" -> [state EXCEPT !.backward = value]
    [] code = "KeyA" -> [state EXCEPT !.left = value]
    [] code = "KeyD" -> [state EXCEPT !.right = value]
    [] code = "Space" -> [state EXCEPT !.brake = value, !.jump = value]
    [] code = "ShiftLeft" -> [state EXCEPT !.run = value]
    [] code = "KeyE" -> [state EXCEPT !.action = value]
    [] code = "KeyV" -> [state EXCEPT !.camToggle = value]
    [] OTHER -> state

\* mapKeys(code, value): value is true for keydown, false for keyup.
mapKeys(state, code, value) ==
  CASE code = "KeyW" -> [state EXCEPT !.forward = value]
    [] code = "KeyS" -> [state EXCEPT !.backward = value]
    [] code = "KeyA" -> [state EXCEPT !.left = value]
    [] code = "KeyD" -> [state EXCEPT !.right = value]
    [] code = "Space" -> [state EXCEPT !.brake = value, !.jump = value]
    [] code = "ShiftLeft" -> [state EXCEPT !.run = value]
    [] code = "KeyE" -> IF value THEN [state EXCEPT !.action = TRUE] ELSE state
    [] code = "KeyV" -> IF value THEN [state EXCEPT !.camToggle = TRUE]
                        ELSE state
    [] OTHER -> state

\* The angle in [-pi/2, pi/2] whose sine is x, sought between lo and hi.
RECURSIVE AsinBetween(_, _, _)
AsinBetween(x, lo, hi) ==
  IF hi - lo <= 1 THEN lo
  ELSE LET mid == (lo + hi) \div 2
       IN  IF Sin(mid) <= x THEN AsinBetween(x, mid, hi)
           ELSE AsinBetween(x, lo, mid)

\* Math.atan2(y, x) of a unit vector (x, y).
Atan2(y, x) ==
  Bind(Pi \div 2, LAMBDA half :
  Bind(AsinBetween(IF Abs(x) >= Abs(y) THEN y ELSE x, -half, half),
       LAMBDA asin :
    IF Abs(x) >= Abs(y)
    THEN IF x >= 0 THEN asin
         ELSE IF y >= 0 THEN Pi - asin
         ELSE -Pi - asin
    ELSE IF y >= 0 THEN half - asin
         ELSE asin - half))

\* The player's mesh.quaternion.
MeshQuaternion(mesh) == SetFromAxisAngle(Vec(0, Scale, 0), mesh.heading)

\* player.update(dt, inputs, world): the player and its body afterwards.
\* Tracers, muzzle flashes and the animation mixer are objects of the scene.
playerUpdate(self, body, dt, inputs) ==
  IF self.isDriving
  THEN [player |-> self,
        body |-> [body EXCEPT !.position = self.mesh.position]]
  ELSE
  Bind(SetFromAxisAngle(Vec(0, Scale, 0), inputs.viewX), LAMBDA turn :
  Bind(ApplyQuaternion(Vec(0, 0, -Scale), turn), LAMBDA forward :
  Bind(ApplyQuaternion(Vec(Scale, 0, 0), turn), LAMBDA right :
  Bind(VecAdd(
         VecAdd(IF inputs.forward THEN forward ELSE ZeroVec,
                IF inputs.backward THEN VecScale(forward, -Scale)
                ELSE ZeroVec),
         VecAdd(IF inputs.right THEN right ELSE ZeroVec,
                IF inputs.left THEN VecScale(right, -Scale)
                ELSE ZeroVec)), LAMBDA sum :
  Bind(IF sum = ZeroVec THEN sum ELSE Normalize(sum), LAMBDA wishDir :
  Bind(IF inputs.run THEN 8 * Scale ELSE 35000, LAMBDA targetSpeed :
  Bind(IF body.isGrounded THEN 40 * Scale ELSE 5 * Scale,
       LAMBDA acceleration :
  Bind(IF body.isGrounded THEN 8 * Scale ELSE 5000, LAMBDA friction :
  Bind(targetSpeed - Dot(body.velocity, wishDir), LAMBDA deficit :
  Bind(IF wishDir # ZeroVec /\ deficit > 0
       THEN AddScaledVector(body.velocity, wishDir,
                            Min(deficit * 2, MulFix(acceleration, dt)))
       ELSE body.velocity, LAMBDA pushed :
  Bind(IF wishDir # ZeroVec
       THEN self.mesh.heading
            + MulFix(WrapPi(Atan2(wishDir.x, wishDir.z) + Pi
                            - self.mesh.heading), 10 * dt)
       ELSE self.mesh.heading, LAMBDA heading :
  Bind(VecLength(Vec(pushed.x, 0, pushed.z)), LAMBDA speed :
  Bind(Max(0, speed - MulFix(MulFix(speed, friction), dt)),
       LAMBDA newSpeed :
  Bind(IF speed > 0
       THEN Vec(MulFix(pushed.x, DivFix(newSpeed, speed)),
                pushed.y,
                MulFix(pushed.z, DivFix(newSpeed, speed)))
       ELSE pushed, LAMBDA slowed :
  Bind(inputs.jump /\ body.isGrounded, LAMBDA jumps :
    [player |-> [self EXCEPT
                   !.mesh = [position |-> body.position,
                             heading |-> heading]],
     body |-> [body EXCEPT
                 !.velocity = IF jumps THEN [slowed EXCEPT !.y = 8 * Scale]
                              ELSE slowed,
                 !.isGrounded = IF jumps THEN FALSE ELSE @]])))))))))))))))

\* The search for the car to enter that takes the first car in reach.
NearestCarFirst(cars, playerPos, n, minDist, nearest) ==
  IF \E c \in 1..Len(cars) :
       VecLength(VecSub(cars[c].mesh.position, playerPos)) < minDist
  THEN CHOOSE c \in 1..Len(cars) :
         /\ VecLength(VecSub(cars[c].mesh.position, playerPos)) < minDist
         /\ \A e \in 1..(c - 1) :
              VecLength(VecSub(cars[e].mesh.position, playerPos)) >= minDist
  ELSE nearest

\* animate's search for the car to enter: of the cars from the n-th on, the
\* first that is nearer to the player than minDist and than those before
\* it; nearest is 0 while none is.
RECURSIVE NearestCar(_, _, _, _, _)
NearestCar(cars, playerPos, n, minDist, nearest) ==
  IF n > Len(cars) THEN nearest
  ELSE LET d == VecLength(VecSub(cars[n].mesh.position, playerPos))
       IN  IF d < minDist THEN NearestCar(cars, playerPos, n + 1, d, n)
           ELSE NearestCar(cars, playerPos, n + 1, minDist, nearest)

\* animate, "Mode Switch Interaction" and "Camera Toggle", on the engine
\* eng = [inputs, currentCar, player, cars, physics, rig].
modeSwitch(eng) ==
  LET exits ==
        LET car == eng.cars[eng.currentCar]
            exitPos == VecAdd(car.mesh.position, Vec(25000, 20000, 0))
        IN  [eng EXCEPT
               !.physics.bodies[eng.player.body].position = exitPos,
               !.physics.bodies[eng.player.body].velocity = ZeroVec,
               !.player.isDriving = FALSE,
               !.cars[eng.currentCar].engineOn = FALSE,
               !.currentCar = 0,
               !.rig.mode = "THIRD_PERSON"]
      enters ==
        LET nearest == NearestCar(eng.cars, eng.player.mesh.position, 1,
                                  5 * Scale, 0)
        IN  IF nearest # 0
            THEN [eng EXCEPT
                    !.currentCar = nearest,
                    !.cars[nearest].engineOn = TRUE,
                    !.player.isDriving = TRUE,
                    !.rig.mode = "THIRD_PERSON"]
            ELSE eng
      switched ==
        IF eng.inputs.action
        THEN [(IF eng.currentCar # 0 THEN exits ELSE enters) EXCEPT
                !.inputs.action = FALSE]
        ELSE eng
  IN  IF switched.inputs.camToggle
      THEN [switched EXCEPT
              !.inputs.camToggle = FALSE,
              !.rig.mode = IF @ = "THIRD_PERSON" THEN "FIRST_PERSON"
                           ELSE "THIRD_PERSON"]
      ELSE switched

(***************************************************************************)
(* The state.                                                              *)
(***************************************************************************)
VARIABLES
  physics,   \* the PhysicsWorld: [bodies, staticColliders]
  pc,        \* where the running call stands; "idle" between calls
  stepDt,    \* step's argument dt
  subDt,     \* step's local subDt
  i,         \* step's loop index
  b,         \* simulate's cursor in bodies (body = bodies[b])
  k,         \* the resolver's cursor in staticColliders
  loc,       \* the resolver's locals computed before its loop
  ret,       \* what the last call returned, with its arguments
  nSteps,    \* calls of step so far
  hist,      \* of the last step call: the world it was called on (atCall)
             \* and, per body, the sub-steps that integrated it, that
             \* resolved it and that reset it by the void guard
  rig,       \* the CameraRig
  cars,      \* the Car entities
  calls,     \* calls so far of CameraRig.update and of Car.update
  lastTime,  \* the frame driver's lastTime, in milliseconds
  worldMgr,  \* the WorldManager: [chunks, playerPos, pedestrians]
  inputMgr,  \* the InputManager: [state]
  player,    \* the Player: [isDriving, body, mesh]
  currentCar \* the engine's currentCar: a car's place in cars, 0 for null

\* The state of the entities, of the frame driver and of the world
\* manager, which the physics world never touches.
\* The input manager, the player and the car the player drives.
appVars == <<inputMgr, player, currentCar>>

entityVars == <<rig, cars, calls, lastTime, worldMgr, appVars>>

vars ==
  <<physics, pc, stepDt, subDt, i, b, k, loc, ret, nSteps, hist, rig, cars,
    calls, lastTime, worldMgr, inputMgr, player, currentCar>>

NoLoc == [none |-> TRUE]

\* A call that returns nothing.
NoRet == [call |-> "none"]

Zeros(n) == [j \in 1..n |-> 0]

NewHist(self) ==
  LET n == Len(self.bodies)
  IN  [atCall |-> self, integ |-> Zeros(n), resol |-> Zeros(n),
       voided |-> Zeros(n)]

\* new CameraRig(camera), with the camera at the origin.
NewCameraRig ==
  [mode |-> "THIRD_PERSON",
   currentPos |-> ZeroVec,
   currentLookAt |-> ZeroVec,
   camera |-> [position |-> ZeroVec,
               orientation |-> [quaternion |-> IdentityQuat]]]

NoCalls == [camera |-> 0, car |-> 0, keys |-> 0]

\* new WorldManager(scene, physics): no chunk yet, playerPos = (0, 0).
NewWorldManager ==
  [chunks |-> {}, playerPos |-> <<0, 0>>, pedestrians |-> <<>>]

\* new InputManager(domElement): no key held, no trigger set.
NewInputManager == [state |-> NoInputs]

\* new Player(startPos), whose body is the first to be registered: on foot,
\* the mesh at startPos and unturned (heading 0 about the vertical).
NewPlayer(startPos) ==
  [isDriving |-> FALSE, body |-> 1,
   mesh |-> [position |-> startPos, heading |-> 0]]

\* The state after new PhysicsWorld() and new CameraRig(camera).
Init ==
  /\ physics = NewPhysicsWorld
  /\ pc = "idle"
  /\ stepDt = 0
  /\ subDt = 0
  /\ i = 0
  /\ b = 0
  /\ k = 0
  /\ loc = NoLoc
  /\ ret = NoRet
  /\ nSteps = 0
  /\ hist = NewHist(NewPhysicsWorld)
  /\ rig = NewCameraRig
  /\ cars = <<>>
  /\ calls = NoCalls
  /\ lastTime = 0
  /\ worldMgr = NewWorldManager
  /\ inputMgr = NewInputManager
  /\ player = NewPlayer(Vec(0, 50000, 0))
  /\ currentCar = 0

\* physics.addBody(body), while fewer than maxBodies are registered.
AddBody(body, maxBodies) ==
  /\ pc = "idle"
  /\ Len(physics.bodies) < maxBodies
  /\ physics' = addBody(physics, body)
  /\ ret' = NoRet
  /\ UNCHANGED <<pc, stepDt, subDt, i, b, k, loc, nSteps, hist>>
  /\ UNCHANGED entityVars

\* physics.addStaticCollider(box), while fewer than maxStatics are registered.
AddStaticCollider(box, maxStatics) ==
  /\ pc = "idle"
  /\ Len(physics.staticColliders) < maxStatics
  /\ physics' = addStaticCollider(physics, box)
  /\ ret' = NoRet
  /\ UNCHANGED <<pc, stepDt, subDt, i, b, k, loc, nSteps, hist>>
  /\ UNCHANGED entityVars

\* step(dt), up to the first call of simulate.
Step(dt, maxSteps) ==
  /\ pc = "idle"
  /\ nSteps < maxSteps
  /\ nSteps' = nSteps + 1
  /\ stepDt' = dt
  /\ subDt' = DivInt(dt, steps)
  /\ i' = 0
  /\ b' = 1
  /\ pc' = "simulate"
  /\ hist' = NewHist(physics)
  /\ ret' = NoRet
  /\ UNCHANGED <<physics, k, loc>>
  /\ UNCHANGED entityVars

\* simulate without its check of the mass.
IsDynamicAlways(body) == TRUE

\* simulate: a body of mass 0 is skipped ("if (body.mass === 0) continue").
IsDynamic(body) == body.mass # 0

\* simulate: the continue for a body of mass 0.
SimulateStatic ==
  /\ pc = "simulate"
  /\ b <= Len(physics.bodies)
  /\ ~IsDynamic(physics.bodies[b])
  /\ b' = b + 1
  /\ UNCHANGED <<physics, pc, stepDt, subDt, i, k, loc, ret, nSteps, hist>>
  /\ UNCHANGED entityVars

\* simulate whose void guard lacks its continue: the body put back is
\* integrated in the same sub-step.
simulateBodyNoContinue(self, bi, dt) ==
  [self EXCEPT !.bodies[bi] =
     IF @.position.y < VoidY THEN Integrate(VoidGuard(@), dt)
     ELSE Integrate(@, dt)]

\* simulate on bodies[bi] up to the call of its resolver: the void guard, or
\* forces, integration and rotation.
simulateBody(self, bi, dt) ==
  [self EXCEPT !.bodies[bi] =
     IF @.position.y < VoidY THEN VoidGuard(@) ELSE Integrate(@, dt)]

\* simulate: the void guard and its continue.
SimulateVoid ==
  /\ pc = "simulate"
  /\ b <= Len(physics.bodies)
  /\ IsDynamic(physics.bodies[b])
  /\ physics.bodies[b].position.y < VoidY
  /\ physics' = simulateBody(physics, b, subDt)
  /\ hist' = [hist EXCEPT !.voided[b] = @ + 1]
  /\ b' = b + 1
  /\ UNCHANGED <<pc, stepDt, subDt, i, k, loc, ret, nSteps>>
  /\ UNCHANGED entityVars

\* simulate: forces, integration and rotation of bodies[b], up to the call of
\* its resolver.
SimulateIntegrate ==
  /\ pc = "simulate"
  /\ b <= Len(physics.bodies)
  /\ IsDynamic(physics.bodies[b])
  /\ physics.bodies[b].position.y >= VoidY
  /\ physics' = simulateBody(physics, b, subDt)
  /\ hist' = [hist EXCEPT !.integ[b] = @ + 1]
  /\ pc' = IF physics.bodies[b].collider.type = "capsule"
           THEN "resolveCapsule" ELSE "resolveBox"
  /\ UNCHANGED <<stepDt, subDt, i, b, k, loc, ret, nSteps>>
  /\ UNCHANGED entityVars

\* The end of one simulate call: step's loop goes on, or step returns.
SimulateEnd ==
  /\ pc = "simulate"
  /\ b > Len(physics.bodies)
  /\ i' = i + 1
  /\ IF i + 1 < steps
     THEN b' = 1 /\ pc' = "simulate"
     ELSE b' = 0 /\ pc' = "idle"
  /\ UNCHANGED <<physics, stepDt, subDt, k, loc, ret, nSteps, hist>>
  /\ UNCHANGED entityVars

\* resolveCapsule, before its loop.
resolveCapsuleFloor(self, bi) ==
  [self EXCEPT !.bodies[bi] = CapsuleFloor(@)]

\* resolveCapsule, one iteration of its loop.
resolveCapsuleStatic(self, bi, ki, l) ==
  [self EXCEPT !.bodies[bi] = CapsuleVsStatic(@, self.staticColliders[ki], l)]

\* resolveBox, before its loop.
resolveBoxGround(self, bi) ==
  [self EXCEPT !.bodies[bi] = BoxGround(@)]

\* resolveBox intersecting into the static collider itself
\* (staticBox.intersect(pBox)) instead of into a clone of pBox.
resolveBoxStaticInPlace(self, bi, ki, l) ==
  [self EXCEPT
     !.bodies[bi] = BoxVsStatic(@, self.staticColliders[ki], l),
     !.staticColliders[ki] =
        IF IntersectsBox(l.pBox, @) THEN Intersect(@, l.pBox) ELSE @]

\* resolveBox, one iteration of its loop.
resolveBoxStatic(self, bi, ki, l) ==
  [self EXCEPT !.bodies[bi] = BoxVsStatic(@, self.staticColliders[ki], l)]

\* resolveCapsule(body) up to its loop; it returns at once when there is no
\* static collider.
ResolveCapsuleFloor ==
  /\ pc = "resolveCapsule"
  /\ physics' = resolveCapsuleFloor(physics, b)
  /\ hist' = [hist EXCEPT !.resol[b] = @ + 1]
  /\ IF Len(physics.staticColliders) > 0
     THEN /\ pc' = "capsuleLoop"
          /\ k' = 1
          /\ loc' = CapsuleLocals(physics'.bodies[b])
          /\ UNCHANGED b
     ELSE /\ pc' = "simulate"
          /\ b' = b + 1
          /\ UNCHANGED <<k, loc>>
  /\ UNCHANGED <<stepDt, subDt, i, ret, nSteps>>
  /\ UNCHANGED entityVars

\* resolveCapsule: the loop's look at staticColliders[k]; after the last one
\* the resolver returns to simulate's loop.
ResolveCapsuleStatic ==
  /\ pc = "capsuleLoop"
  /\ physics' = resolveCapsuleStatic(physics, b, k, loc)
  /\ IF k < Len(physics.staticColliders)
     THEN /\ k' = k + 1
          /\ UNCHANGED <<pc, b, loc>>
     ELSE /\ k' = 0
          /\ loc' = NoLoc
          /\ pc' = "simulate"
          /\ b' = b + 1
  /\ UNCHANGED <<stepDt, subDt, i, ret, nSteps, hist>>
  /\ UNCHANGED entityVars

\* resolveBox(body) up to its loop.
ResolveBoxGround ==
  /\ pc = "resolveBox"
  /\ physics' = resolveBoxGround(physics, b)
  /\ hist' = [hist EXCEPT !.resol[b] = @ + 1]
  /\ IF Len(physics.staticColliders) > 0
     THEN /\ pc' = "boxLoop"
          /\ k' = 1
          /\ loc' = BoxLocals(physics'.bodies[b])
          /\ UNCHANGED b
     ELSE /\ pc' = "simulate"
          /\ b' = b + 1
          /\ UNCHANGED <<k, loc>>
  /\ UNCHANGED <<stepDt, subDt, i, ret, nSteps>>
  /\ UNCHANGED entityVars

\* resolveBox: the loop's look at staticColliders[k].
ResolveBoxStatic ==
  /\ pc = "boxLoop"
  /\ physics' = resolveBoxStatic(physics, b, k, loc)
  /\ IF k < Len(physics.staticColliders)
     THEN /\ k' = k + 1
          /\ UNCHANGED <<pc, b, loc>>
     ELSE /\ k' = 0
          /\ loc' = NoLoc
          /\ pc' = "simulate"
          /\ b' = b + 1
  /\ UNCHANGED <<stepDt, subDt, i, ret, nSteps, hist>>
  /\ UNCHANGED entityVars

\* The steps of a running step(dt) call.
StepRun ==
  \/ SimulateStatic
  \/ SimulateVoid
  \/ SimulateIntegrate
  \/ SimulateEnd
  \/ ResolveCapsuleFloor
  \/ ResolveCapsuleStatic
  \/ ResolveBoxGround
  \/ ResolveBoxStatic

(***************************************************************************)
(* The physics world under its callers' registrations and steps.  Bounds   *)
(* and inputs: a body of mass 0 inside the wall, a player below the void   *)
(* threshold and a sport car overlapping the wall; the wall stands on the  *)
(* footprint x in [1, 3], z in [-1, 1].                                    *)
(***************************************************************************)
MaxBodies == 2

MaxStatics == 1

MaxSteps == 2

\* The frame deltas step is called with: 0.016 s (60 frames a second) and
\* 0.05 s (the frame driver's cap).
Dts == {160, 500}

Footprint(top) == Box3(Vec(10000, 0, -10000), Vec(30000, top, 10000))

BoxInputs == {Footprint(30000)}

BodyInputs ==
  { [PlayerBody(Vec(12000, 8500, 0)) EXCEPT
        !.mass = 0, !.velocity = Vec(10000, -10000, 0),
        !.angularVelocity = Vec(0, 10000, 0)],
    [PlayerBody(Vec(5000, -210000, 0)) EXCEPT
        !.velocity = Vec(10000, -300000, 0),
        !.angularVelocity = Vec(0, 10000, 0), !.isGrounded = TRUE],
    CarBody(Vec(0, 6000, 0), CAR_SPORT) }

Next ==
  \/ \E body \in BodyInputs : AddBody(body, MaxBodies)
  \/ \E box \in BoxInputs : AddStaticCollider(box, MaxStatics)
  \/ \E dt \in Dts : Step(dt, MaxSteps)
  \/ StepRun

Spec == Init /\ [][Next]_vars

(***************************************************************************)
(* Raycasts into a world of static colliders: rays from below, on and      *)
(* above the ground plane, downward (vertical and slanted), upward and     *)
(* horizontal, with the reach of the sport car's suspension ray and a      *)
(* longer one; colliders on the ground and elevated above it.              *)
(***************************************************************************)
\* world.raycast(origin, direction, maxLength), its result kept in ret.
Raycast(origin, direction, maxLength) ==
  /\ pc = "idle"
  /\ ret' = [call |-> "raycast", origin |-> origin, direction |-> direction,
             maxLength |-> maxLength,
             result |-> raycast(physics, origin, direction, maxLength)]
  /\ UNCHANGED <<physics, pc, stepDt, subDt, i, b, k, loc, nSteps, hist>>
  /\ UNCHANGED entityVars

MaxRayStatics == 2

RayBoxInputs ==
  {Footprint(30000), Box3(Vec(-10000, 2000, -10000), Vec(10000, 5000, 10000))}

RayOrigins ==
  {Vec(0, y, 0) : y \in {-5000, 0, 7000, 7300, 20000}}
    \cup {Vec(20000, 40000, 0)}

RayDirections ==
  {Vec(0, -Scale, 0), Vec(6000, -3000, 0), Vec(0, Scale, 0), Vec(Scale, 0, 0)}

RayLengths == {7300, 30000}

NextRaycast ==
  \/ \E box \in RayBoxInputs : AddStaticCollider(box, MaxRayStatics)
  \/ \E origin \in RayOrigins, direction \in RayDirections,
        maxLength \in RayLengths : Raycast(origin, direction, maxLength)

SpecRaycast == Init /\ [][NextRaycast]_vars

(***************************************************************************)
(* The readers of the static-collider list: steps of a world without       *)
(* bodies or with a capsule and a car that both collide with the wall,     *)
(* raycasts, and the camera in both modes, behind a player and behind a    *)
(* car, with the view straight and turned into the wall.                   *)
(***************************************************************************)
\* cameraRig.update(dt, target.position, target.quaternion, inputs, physics,
\* isVehicle), while fewer than maxCalls have been made.
CameraUpdate(dt, target, inputs, maxCalls) ==
  /\ pc = "idle"
  /\ calls.camera < maxCalls
  /\ rig' = update(rig, dt, target.position, target.rotation, inputs, physics,
                   target.isVehicle)
  /\ calls' = [calls EXCEPT !.camera = @ + 1]
  /\ ret' = [call |-> "update", mode |-> rig.mode,
             targetPos |-> target.position, inputs |-> inputs]
  /\ UNCHANGED <<physics, pc, stepDt, subDt, i, b, k, loc, nSteps, hist, cars,
                 lastTime, worldMgr>>
  /\ UNCHANGED appVars

\* animate with inputs.camToggle set: the camera mode flips.
CamToggle ==
  /\ pc = "idle"
  /\ rig' = [rig EXCEPT !.mode = IF @ = "THIRD_PERSON" THEN "FIRST_PERSON"
                                 ELSE "THIRD_PERSON"]
  /\ ret' = NoRet
  /\ UNCHANGED <<physics, pc, stepDt, subDt, i, b, k, loc, nSteps, hist, cars,
                 calls, lastTime, worldMgr>>
  /\ UNCHANGED appVars

MaxQueryStatics == 2

MaxQuerySteps == 1

MaxCameraCalls == 1

QueryDts == {160}

QueryBoxInputs ==
  {Footprint(30000), Box3(Vec(-10000, 2000, -10000), Vec(10000, 5000, 10000))}

QueryBodies ==
  { <<>>,
    <<Standing(8000, 0, Vec(20000, 0, 10000)),
      CarBody(Vec(0, 6000, 0), CAR_SPORT)>> }

\* What the camera follows and the view angles of the input snapshot: the
\* player's mesh with the view turned into the wall, a car's with the view
\* straight.
QueryCameraInputs ==
  { [target |-> [position |-> Vec(8000, 8500, 0), rotation |-> IdentityQuat,
                 isVehicle |-> FALSE],
     inputs |-> [viewX |-> Pi \div 2, viewY |-> 3000]],
    [target |-> [position |-> Vec(0, 6000, 0), rotation |-> IdentityQuat,
                 isVehicle |-> TRUE],
     inputs |-> [viewX |-> 0, viewY |-> 0]] }

InitQuery ==
  /\ \E bodies \in QueryBodies :
       physics = [NewPhysicsWorld EXCEPT !.bodies = bodies]
  /\ pc = "idle"
  /\ stepDt = 0
  /\ subDt = 0
  /\ i = 0
  /\ b = 0
  /\ k = 0
  /\ loc = NoLoc
  /\ ret = NoRet
  /\ nSteps = 0
  /\ hist = NewHist(physics)
  /\ rig = NewCameraRig
  /\ cars = <<>>
  /\ calls = NoCalls
  /\ lastTime = 0
  /\ worldMgr = NewWorldManager
  /\ inputMgr = NewInputManager
  /\ player = NewPlayer(Vec(0, 50000, 0))
  /\ currentCar = 0

\* The steps of a running step(dt) call on capsules and boxes.
QueryStepRun ==
  \/ SimulateIntegrate
  \/ SimulateEnd
  \/ ResolveCapsuleFloor
  \/ ResolveCapsuleStatic
  \/ ResolveBoxGround
  \/ ResolveBoxStatic

NextQuery ==
  \/ \E box \in QueryBoxInputs : AddStaticCollider(box, MaxQueryStatics)
  \/ \E dt \in QueryDts : Step(dt, MaxQuerySteps)
  \/ QueryStepRun
  \/ Raycast(Vec(0, 7000, 0), Vec(0, -Scale, 0), 7300)
  \/ \E dt \in QueryDts, c \in QueryCameraInputs :
       CameraUpdate(dt, c.target, c.inputs, MaxCameraCalls)
  \/ CamToggle

SpecQuery == InitQuery /\ [][NextQuery]_vars

(***************************************************************************)
(* The camera probe: the camera behind the player beside a building wall   *)
(* and behind a sport car that stands under a canal bridge, with the view  *)
(* level, pitched up to the clamp and pitched down, straight and turned.   *)
(***************************************************************************)
MaxProbeStatics == 2

MaxProbeCalls == 1

\* A building wall east of the origin, a street light's pole north of it,
\* and a canal bridge (10 x 0.5 x 24, centred 1.5 above the ground) over it.
ProbeBoxInputs ==
  { Box3(Vec(30000, 0, -125000), Vec(280000, 400000, 125000)),
    SetFromCenterAndSize(Vec(0, 40000, 30000), Vec(4000, 80000, 4000)),
    SetFromCenterAndSize(Vec(0, 15000, 0), Vec(100000, 5000, 240000)) }

\* The player's mesh (a capsule standing on the ground) and the sport
\* car's (resting on the ground plane), with the view angles of the input
\* snapshot.
ProbeCameraInputs ==
  { [target |-> [position |-> pos, rotation |-> IdentityQuat,
                 isVehicle |-> pos.y < 8500],
     inputs |-> [viewX |-> yaw, viewY |-> pitch]] :
      pos \in {Vec(20000, 8500, 0), Vec(0, 6000, 0)},
      yaw \in {0, Pi \div 2},
      pitch \in {-5000, 0, Scale} }

NextProbe ==
  \/ \E box \in ProbeBoxInputs : AddStaticCollider(box, MaxProbeStatics)
  \/ \E c \in ProbeCameraInputs :
       CameraUpdate(160, c.target, c.inputs, MaxProbeCalls)

SpecProbe == Init /\ [][NextProbe]_vars

(***************************************************************************)
(* Driving: a car of each shipped configuration, upright at rest on the    *)
(* ground plane, engine on and the forward key held, through frames of     *)
(* step(dt) followed by car.update(dt); in the open, and under a collider  *)
(* that overhangs its roof at y = 1.1 and presses the body down.           *)
(***************************************************************************)
\* car.update(dt, inputs, physics) for cars[c], while fewer than maxCalls
\* have been made; ret keeps the car and the body it was called on.
CarUpdate(c, dt, inputs, maxCalls) ==
  /\ pc = "idle"
  /\ calls.car < maxCalls
  /\ LET res == carUpdate(cars[c], physics.bodies[cars[c].body], dt, inputs,
                          physics)
     IN  /\ cars' = [cars EXCEPT ![c] = res.car]
         /\ physics' = [physics EXCEPT !.bodies[cars[c].body] = res.body]
         /\ ret' = [call |-> "carUpdate", car |-> cars[c],
                    body |-> physics.bodies[cars[c].body], dt |-> dt,
                    inputs |-> inputs, impulses |-> res.impulses,
                    log |-> res.log]
  /\ calls' = [calls EXCEPT !.car = @ + 1]
  /\ UNCHANGED <<pc, stepDt, subDt, i, b, k, loc, nSteps, hist, rig, lastTime,
                 worldMgr>>
  /\ UNCHANGED appVars

MaxFrames == 3

Configs == {CAR_SPORT, CAR_TRUCK, CAR_SEDAN}

Overhang == Box3(Vec(-30000, 11000, -30000), Vec(30000, 30000, 30000))

DriveInputs == [NoInputs EXCEPT !.forward = TRUE]

\* The car's body centre when it rests on the ground plane.
RestPos(config) == Vec(0, config.height \div 2, 0)

\* The driver has entered the car: its engine is on.
InitVehicle ==
  /\ \E config \in Configs, statics \in {<<>>, <<Overhang>>},
        wheels \in {<<>>, LoadedWheels} :
       /\ physics = [bodies |-> <<CarBody(RestPos(config), config)>>,
                     staticColliders |-> statics]
       /\ cars = <<[NewCar(1, RestPos(config), config) EXCEPT
                      !.engineOn = TRUE, !.wheels = wheels]>>
  /\ pc = "idle"
  /\ stepDt = 0
  /\ subDt = 0
  /\ i = 0
  /\ b = 0
  /\ k = 0
  /\ loc = NoLoc
  /\ ret = NoRet
  /\ nSteps = 0
  /\ hist = NewHist(physics)
  /\ rig = NewCameraRig
  /\ calls = NoCalls
  /\ lastTime = 0
  /\ worldMgr = NewWorldManager
  /\ inputMgr = NewInputManager
  /\ player = NewPlayer(Vec(0, 50000, 0))
  /\ currentCar = 0

\* The steps of a running step(dt) call on box bodies.
VehicleStepRun ==
  \/ SimulateIntegrate
  \/ SimulateEnd
  \/ ResolveBoxGround
  \/ ResolveBoxStatic

\* animate: step(dt), then the car's update with the same dt.
NextVehicle ==
  \/ \E dt \in Dts : calls.car = nSteps /\ Step(dt, MaxFrames)
  \/ VehicleStepRun
  \/ CarUpdate(1, stepDt, DriveInputs, nSteps)

SpecVehicle == InitVehicle /\ [][NextVehicle]_vars

(***************************************************************************)
(* The suspension left to itself: a parked car of each shipped             *)
(* configuration, engine off and no key held, level and at rest either on  *)
(* the ground plane or at the height where its four springs would carry    *)
(* its weight, through frames of step(dt) followed by car.update(dt).      *)
(* Every frame that can run does run.                                      *)
(***************************************************************************)
MaxSettleFrames == 3

\* The body centre at which the four springs of a level car carry its weight:
\* compression = mass * 25 / (4 * stiffness), the ray from the mount (0.2
\* above the centre) reaching the ground at wheelRadius + travel.
SpringRestPos(config) ==
  LET compression == DivFix(config.mass * 25, 4 * config.suspensionStiffness)
      travel == MulFix(Scale - compression, config.suspensionLength)
  IN  Vec(0, config.wheelRadius + travel - MountPoints[1].y, 0)

InitSuspension ==
  /\ \E config \in Configs, wheels \in {<<>>, LoadedWheels} :
     \E startPos \in {RestPos(config), SpringRestPos(config)} :
       /\ physics = [bodies |-> <<CarBody(startPos, config)>>,
                     staticColliders |-> <<>>]
       /\ cars = <<[NewCar(1, startPos, config) EXCEPT !.wheels = wheels]>>
  /\ pc = "idle"
  /\ stepDt = 0
  /\ subDt = 0
  /\ i = 0
  /\ b = 0
  /\ k = 0
  /\ loc = NoLoc
  /\ ret = NoRet
  /\ nSteps = 0
  /\ hist = NewHist(physics)
  /\ rig = NewCameraRig
  /\ calls = NoCalls
  /\ lastTime = 0
  /\ worldMgr = NewWorldManager
  /\ inputMgr = NewInputManager
  /\ player = NewPlayer(Vec(0, 50000, 0))
  /\ currentCar = 0

\* The steps of a running step(dt) call on box bodies in a world without
\* static colliders.
SettleStepRun ==
  \/ SimulateIntegrate
  \/ SimulateEnd
  \/ ResolveBoxGround

NextSuspension ==
  \/ \E dt \in Dts : calls.car = nSteps /\ Step(dt, MaxSettleFrames)
  \/ SettleStepRun
  \/ CarUpdate(1, stepDt, NoInputs, nSteps)

\* Where the frame loop stands: the variables of which every step of a frame
\* changes one.
frameVars == <<pc, i, b, nSteps, calls>>

\* requestAnimationFrame(animate): the frame loop goes on.  A step of the
\* loop is possible while a call of step is running, while the car's update
\* of the frame is still to come and while a further frame is to come, and
\* then it moves the loop on.
FrameGoesOn ==
  /\ pc # "idle" \/ calls.car < nSteps \/ nSteps < MaxSettleFrames
  /\ pc' \in {"idle", "simulate", "resolveBox"}
  /\ i' \in 0..steps
  /\ b' \in 0..2
  /\ nSteps' \in 0..MaxSettleFrames
  /\ calls' \in [camera : {0}, car : 0..MaxSettleFrames, keys : {0}]

SpecSuspension ==
  InitSuspension /\ [][NextSuspension]_vars /\ WF_frameVars(FrameGoesOn)

(***************************************************************************)
(* Wheels in and out of ground contact: a car of each configuration as it  *)
(* is spawned (in the air), in the air while tumbling, pressed onto its    *)
(* wheels under an overhang, at rest or skidding sideways, and pitched     *)
(* onto its front wheels; engine on or off, with the keys of a driver      *)
(* held.                                                                   *)
(***************************************************************************)
MaxWheelFrames == 2

\* The input snapshots of a driver: no key, forward, backward and left, and
\* forward with the brake.
WheelInputs ==
  { NoInputs, DriveInputs,
    [NoInputs EXCEPT !.backward = TRUE, !.left = TRUE],
    [NoInputs EXCEPT !.forward = TRUE, !.brake = TRUE] }

\* The car's body and the static colliders about it.
WheelPoses(config) ==
  { [body |-> CarBody(Vec(0, 20000, 0), config), statics |-> <<>>],
    [body |-> [CarBody(Vec(0, 20000, 0), config) EXCEPT
                 !.velocity = Vec(0, -10000, -50000),
                 !.angularVelocity = Vec(3000, 10000, 0),
                 !.isGrounded = FALSE],
     statics |-> <<>>],
    [body |-> CarBody(RestPos(config), config), statics |-> <<Overhang>>],
    [body |-> [CarBody(RestPos(config), config) EXCEPT
                 !.rotation = SetFromAxisAngle(Vec(Scale, 0, 0), -3000),
                 !.velocity = Vec(0, 0, -20000),
                 !.angularVelocity = Vec(2000, 0, 0)],
     statics |-> <<>>],
    [body |-> [CarBody(RestPos(config), config) EXCEPT
                 !.velocity = Vec(70000, 0, -10000)],
     statics |-> <<Overhang>>] }

InitWheels ==
  /\ \E config \in Configs, engineOn \in BOOLEAN :
       \E pose \in WheelPoses(config) :
         /\ physics = [bodies |-> <<pose.body>>,
                       staticColliders |-> pose.statics]
         /\ cars = <<[NewCar(1, pose.body.position, config) EXCEPT
                        !.engineOn = engineOn, !.wheels = LoadedWheels]>>
  /\ pc = "idle"
  /\ stepDt = 0
  /\ subDt = 0
  /\ i = 0
  /\ b = 0
  /\ k = 0
  /\ loc = NoLoc
  /\ ret = NoRet
  /\ nSteps = 0
  /\ hist = NewHist(physics)
  /\ rig = NewCameraRig
  /\ calls = NoCalls
  /\ lastTime = 0
  /\ worldMgr = NewWorldManager
  /\ inputMgr = NewInputManager
  /\ player = NewPlayer(Vec(0, 50000, 0))
  /\ currentCar = 0

NextWheels ==
  \/ calls.car = nSteps /\ Step(160, MaxWheelFrames)
  \/ VehicleStepRun
  \/ \E inputs \in WheelInputs : CarUpdate(1, stepDt, inputs, nSteps)

SpecWheels == InitWheels /\ [][NextWheels]_vars

(***************************************************************************)
(* Steering: the same cars through calls of Car.update alone, with frame   *)
(* times up to the cap and the steering keys held or released.             *)
(***************************************************************************)
MaxSteerCalls == 2

NextSteer ==
  \E dt \in Dts, key \in {"left", "right", "none"} :
    CarUpdate(1, dt,
              [NoInputs EXCEPT !.left = (key = "left"),
                               !.right = (key = "right")],
              MaxSteerCalls)

SpecSteer == InitWheels /\ [][NextSteer]_vars

(***************************************************************************)
(* A box body against a crate: a sport car that overlaps the crate's       *)
(* corner least along x, least along z, and equally along x and z, and one *)
(* that lands on a low crate.                                              *)
(***************************************************************************)
MaxCrateSteps == 1

NextCrate ==
  \/ \E pv \in { <<Vec(-11000, 6000, 10000), Vec(10000, 0, 0)>>,
                  <<Vec(0, 6000, 1500), Vec(0, 0, 10000)>>,
                  <<Vec(-11000, 6000, 1500), ZeroVec>>,
                  <<Vec(20000, 10000, 20000), Vec(5000, -10000, 5000)>> } :
       AddBody([CarBody(pv[1], CAR_SPORT) EXCEPT !.velocity = pv[2]], 1)
  \/ \E top \in {5000, 30000} :
       AddStaticCollider(Box3(Vec(10000, 0, 10000), Vec(30000, top, 30000)), 1)
  \/ \E dt \in Dts : Step(dt, MaxCrateSteps)
  \/ VehicleStepRun

SpecCrate == Init /\ [][NextCrate]_vars

(***************************************************************************)
(* The frame driver: animate(time) is called with the timestamps of the    *)
(* animation frames.  The first one may lie before the performance.now()   *)
(* that set lastTime; later ones follow their predecessor by nothing (a    *)
(* coarse clock), by a frame, by the cap, or by a stall of two seconds.    *)
(***************************************************************************)
MaxAnimateFrames == 3

\* animate's dt: Math.min((time - lastTime) / 1000, 0.05), times in ms.
FrameDt(time, last) == Min((time - last) * (Scale \div 1000), 500)

\* animate(time), up to the first call of simulate in physics.step(dt).
Animate(time, maxFrames) ==
  /\ pc = "idle"
  /\ nSteps < maxFrames
  /\ lastTime' = time
  /\ nSteps' = nSteps + 1
  /\ stepDt' = FrameDt(time, lastTime)
  /\ subDt' = DivInt(FrameDt(time, lastTime), steps)
  /\ i' = 0
  /\ b' = 1
  /\ pc' = "simulate"
  /\ hist' = NewHist(physics)
  /\ ret' = NoRet
  /\ UNCHANGED <<physics, k, loc, rig, cars, calls, worldMgr>>
  /\ UNCHANGED appVars

NextFrames ==
  \/ AddBody(CarBody(Vec(0, 20000, 0), CAR_SPORT), 1)
  \/ \E delta \in IF nSteps = 0 THEN {-4, 16} ELSE {0, 16, 50, 2000} :
       Animate(lastTime + delta, MaxAnimateFrames)
  \/ SettleStepRun

SpecFrames == Init /\ [][NextFrames]_vars

(***************************************************************************)
(* Streaming: the player and a sport car have registered their bodies;     *)
(* each frame steps the physics world, hands the player's position to the  *)
(* world manager and updates the car.  The player is in the chunk of the origin, or far out west in  *)
(* the industrial biome: in chunk column -4, whose 5 x 5 chunks hold no    *)
(* city block, or in column -3, whose easternmost chunks are city blocks   *)
(* with pedestrians.  Going from one to the other unloads a column of      *)
(* chunks and loads another.                                               *)
(***************************************************************************)
MaxWorldFrames == 2

PlayerPositions ==
  {Vec(0, 8500, 0), Vec(-200 * Scale, 8500, 0), Vec(-300 * Scale, 8500, 0)}

\* What Math.random() returns.
Randoms == {2000, 6000}

\* world.update(dt, playerPos), once physics.step(dt) of the frame is done.
WorldUpdate(playerPos, r) ==
  /\ pc = "idle"
  /\ nSteps > 0
  /\ ret = NoRet
  /\ LET self == worldUpdate([physics |-> physics,
                              chunks |-> worldMgr.chunks,
                              playerPos |-> worldMgr.playerPos,
                              pedestrians |-> worldMgr.pedestrians],
                             playerPos, r)
     IN  /\ physics' = self.physics
         /\ worldMgr' = [chunks |-> self.chunks,
                         playerPos |-> self.playerPos,
                         pedestrians |-> self.pedestrians]
  /\ ret' = [call |-> "worldUpdate", playerPos |-> playerPos,
             chunks |-> worldMgr.chunks]
  /\ UNCHANGED <<pc, stepDt, subDt, i, b, k, loc, nSteps, hist, rig, cars,
                 calls, lastTime>>
  /\ UNCHANGED appVars

\* The steps of a running step(dt) call on bodies of a mass.
WorldStepRun ==
  \/ SimulateIntegrate
  \/ SimulateEnd
  \/ ResolveCapsuleFloor
  \/ ResolveCapsuleStatic
  \/ ResolveBoxGround
  \/ ResolveBoxStatic

\* The world once the player has registered its body at (0, 5, 0) and the
\* sport car its body at (10, 2, 10).
InitWorld ==
  /\ physics = addBody(addBody(NewPhysicsWorld, PlayerBody(Vec(0, 50000, 0))),
                       CarBody(Vec(100000, 20000, 100000), CAR_SPORT))
  /\ pc = "idle"
  /\ stepDt = 0
  /\ subDt = 0
  /\ i = 0
  /\ b = 0
  /\ k = 0
  /\ loc = NoLoc
  /\ ret = NoRet
  /\ nSteps = 0
  /\ hist = NewHist(NewPhysicsWorld)
  /\ rig = NewCameraRig
  /\ cars = <<NewCar(2, Vec(100000, 20000, 100000), CAR_SPORT)>>
  /\ calls = NoCalls
  /\ lastTime = 0
  /\ worldMgr = NewWorldManager
  /\ inputMgr = NewInputManager
  /\ player = NewPlayer(Vec(0, 50000, 0))
  /\ currentCar = 0

\* animate: physics.step(dt), world.update(dt, player.mesh.position) and
\* the car's update.
NextWorld ==
  \/ calls.car = nSteps /\ Step(160, MaxWorldFrames)
  \/ WorldStepRun
  \/ \E playerPos \in PlayerPositions, r \in Randoms :
       WorldUpdate(playerPos, r)
  \/ ret.call = "worldUpdate" /\ CarUpdate(1, stepDt, DriveInputs, nSteps)

SpecWorld == InitWorld /\ [][NextWorld]_vars

(***************************************************************************)
(* The game loop under key events.  The game as it starts, with the player *)
(* dropped at (0, 5, 0) far from the three cars; the player after a walk   *)
(* to the sport car; and the sedan parked next to the sport car with the   *)
(* player between the two, nearer to the sedan.  All of it lies in the     *)
(* chunk of the origin, for which the world manager loads nothing.  Key    *)
(* events arrive between frames: KeyE, KeyV and KeyW go down and up.       *)
(***************************************************************************)
MaxKeyFrames == 3

MaxKeyEvents == 3

\* A keydown (value) or keyup event of the key code, between two frames.
KeyEvent(code, value, maxKeys) ==
  /\ pc = "idle"
  /\ calls.camera = nSteps
  /\ calls.keys < maxKeys
  /\ inputMgr' = [inputMgr EXCEPT !.state = mapKeys(@, code, value)]
  /\ calls' = [calls EXCEPT !.keys = @ + 1]
  /\ ret' = [call |-> "mapKeys", code |-> code, value |-> value]
  /\ UNCHANGED <<physics, pc, stepDt, subDt, i, b, k, loc, nSteps, hist, rig,
                 cars, lastTime, worldMgr, player, currentCar>>

\* animate(time), from its start to the first call of simulate in
\* physics.step(dt): the mode switch and the camera toggle.
AnimateKeys(time, maxFrames) ==
  /\ pc = "idle"
  /\ calls.camera = nSteps
  /\ nSteps < maxFrames
  /\ LET eng == modeSwitch([inputs |-> inputMgr.state,
                            currentCar |-> currentCar,
                            player |-> player,
                            cars |-> cars,
                            physics |-> physics,
                            rig |-> rig])
     IN  /\ inputMgr' = [inputMgr EXCEPT !.state = eng.inputs]
         /\ currentCar' = eng.currentCar
         /\ player' = eng.player
         /\ cars' = eng.cars
         /\ physics' = eng.physics
         /\ rig' = eng.rig
         /\ hist' = NewHist(eng.physics)
  /\ lastTime' = time
  /\ nSteps' = nSteps + 1
  /\ stepDt' = FrameDt(time, lastTime)
  /\ subDt' = DivInt(FrameDt(time, lastTime), steps)
  /\ i' = 0
  /\ b' = 1
  /\ pc' = "simulate"
  /\ ret' = NoRet
  /\ UNCHANGED <<k, loc, calls, worldMgr>>

\* player.update(dt, inputs, physics), after world.update.
PlayerUpdate ==
  /\ pc = "idle"
  /\ ret.call = "worldUpdate"
  /\ LET res == playerUpdate(player, physics.bodies[player.body], stepDt,
                             inputMgr.state)
     IN  /\ player' = res.player
         /\ physics' = [physics EXCEPT !.bodies[player.body] = res.body]
  /\ ret' = [call |-> "playerUpdate"]
  /\ UNCHANGED <<pc, stepDt, subDt, i, b, k, loc, nSteps, hist, rig, cars,
                 calls, lastTime, worldMgr, inputMgr, currentCar>>

\* What the world manager and the camera follow: the car the player
\* drives, or the player.
Target ==
  IF currentCar # 0
  THEN [position |-> cars[currentCar].mesh.position,
        rotation |-> cars[currentCar].mesh.quaternion,
        isVehicle |-> TRUE]
  ELSE [position |-> player.mesh.position,
        rotation |-> MeshQuaternion(player.mesh),
        isVehicle |-> FALSE]

\* The engine once the player and the three cars are there, the player on
\* foot.
InitKeys ==
  /\ \E place \in
         { [player |-> PlayerBody(Vec(0, 50000, 0)),
            sport |-> Vec(100000, 20000, 100000),
            sedan |-> Vec(50000, 20000, -200000)],
           [player |-> Standing(70000, 100000, ZeroVec),
            sport |-> Vec(100000, 6000, 100000),
            sedan |-> Vec(50000, 7000, -200000)],
           [player |-> Standing(135000, 100000, ZeroVec),
            sport |-> Vec(100000, 6000, 100000),
            sedan |-> Vec(150000, 7000, 100000)] } :
       LET truck == Vec(-150000, place.sport.y + 4000, 50000)
       IN  /\ physics =
                [bodies |-> <<place.player,
                              CarBody(place.sport, CAR_SPORT),
                              CarBody(truck, CAR_TRUCK),
                              CarBody(place.sedan, CAR_SEDAN)>>,
                 staticColliders |-> <<>>]
           /\ cars = <<NewCar(2, place.sport, CAR_SPORT),
                       NewCar(3, truck, CAR_TRUCK),
                       NewCar(4, place.sedan, CAR_SEDAN)>>
           /\ player = NewPlayer(place.player.position)
  /\ pc = "idle"
  /\ stepDt = 0
  /\ subDt = 0
  /\ i = 0
  /\ b = 0
  /\ k = 0
  /\ loc = NoLoc
  /\ ret = NoRet
  /\ nSteps = 0
  /\ hist = NewHist(physics)
  /\ rig = NewCameraRig
  /\ calls = NoCalls
  /\ lastTime = 0
  /\ worldMgr = NewWorldManager
  /\ inputMgr = NewInputManager
  /\ currentCar = 0

\* Key events, and animate: the mode switch, physics.step, world.update,
\* player.update, the cars' updates and cameraRig.update.
NextKeys ==
  \/ \E code \in {"KeyE", "KeyV", "KeyW"}, value \in BOOLEAN :
       KeyEvent(code, value, MaxKeyEvents)
  \/ AnimateKeys(lastTime + 16, MaxKeyFrames)
  \/ SimulateIntegrate
  \/ SimulateEnd
  \/ ResolveCapsuleFloor
  \/ ResolveBoxGround
  \/ \E r \in Randoms, playerPos \in {Target.position} :
       WorldUpdate(playerPos, r)
  \/ PlayerUpdate
  \/ /\ ret.call \in {"playerUpdate", "carUpdate"}
     /\ CarUpdate((calls.car % Len(cars)) + 1, stepDt, inputMgr.state,
                  Len(cars) * nSteps)
  \/ /\ ret.call = "carUpdate"
     /\ calls.car = Len(cars) * nSteps
     /\ CameraUpdate(stepDt, Target, inputMgr.state, nSteps)

SpecKeys == InitKeys /\ [][NextKeys]_vars

\* The distance animate compares with 5: from the car's mesh to the
\* player's mesh.
CarDistance(c) ==
  VecLength(VecSub(cars[c].mesh.position, player.mesh.position))

\* The frame's mode switch is the step that starts physics.step.
FrameStarts == nSteps' = nSteps + 1

\* C27: in every state of the game loop, whatever the key presses were,
\* currentCar is non-null exactly when player.isDriving, and a car's engine
\* is on exactly when the car is currentCar (so at most one engine is on);
\* and the player enters a car only when some car is nearer than 5, and
\* then the car entered is one nearer than 5 that no car is nearer than.
C27_OneDriverNearestCar ==
  /\ [](/\ (currentCar # 0) <=> player.isDriving
        /\ \A c \in 1..Len(cars) : cars[c].engineOn <=> (currentCar = c))
  /\ [][(currentCar = 0 /\ currentCar' # 0) =>
          /\ CarDistance(currentCar') < 5 * Scale
          /\ \A c \in 1..Len(cars) :
               CarDistance(c) >= CarDistance(currentCar')]_vars

\* The player drives the sedan, entered while the sport car, first of the
\* cars, was in reach too.
C27_Witness ==
  /\ currentCar = 3
  /\ player.isDriving
  /\ cars[3].engineOn
  /\ CarDistance(1) < 5 * Scale
  /\ CarDistance(3) < CarDistance(1)

\* What a key event and a frame do with the two triggers and the modes;
\* transits says, of a frame that sees the action flag, whether it enters
\* or exits a car.
OneShot(transits) ==
  LET state == inputMgr.state
      state2 == inputMgr'.state
      switched == IF currentCar' # currentCar THEN "THIRD_PERSON" ELSE rig.mode
      toggled == IF switched = "THIRD_PERSON" THEN "FIRST_PERSON"
                 ELSE "THIRD_PERSON"
  IN  /\ calls'.keys # calls.keys =>
           /\ state2.action =
                (state.action \/ (ret'.code = "KeyE" /\ ret'.value))
           /\ state2.camToggle =
                (state.camToggle \/ (ret'.code = "KeyV" /\ ret'.value))
      /\ FrameStarts =>
           /\ ~state2.action
           /\ ~state2.camToggle
           /\ (currentCar' # currentCar) = (state.action /\ transits)
           /\ currentCar' # currentCar => currentCar = 0 \/ currentCar' = 0
           /\ player'.isDriving = (currentCar' # 0)
           /\ rig'.mode = IF state.camToggle THEN toggled ELSE switched
      /\ ~FrameStarts =>
           /\ currentCar' = currentCar
           /\ player'.isDriving = player.isDriving
           /\ rig'.mode = rig.mode
           /\ calls'.keys = calls.keys => state2 = state

\* C30: a keydown of KeyE (KeyV) sets action (camToggle) and a keyup sets
\* and clears neither; the next frame clears both flags, makes exactly one
\* enter or exit if it saw action and exactly one camera-mode toggle if it
\* saw camToggle; nothing else changes the flags, the car driven or the
\* camera mode.
C30_OneShotTriggers == [][OneShot(TRUE)]_vars

\* C30, with the frame that sees action entering or exiting exactly when
\* there is a car to exit or to enter: the player drives, or some car is
\* nearer than 5.
C30_OneShotTriggersInReach ==
  [][OneShot(currentCar # 0 \/
             \E c \in 1..Len(cars) : CarDistance(c) < 5 * Scale)]_vars

\* After a keydown and a keyup of KeyE, a frame has entered a car, and
\* the flag is clear.
C30_Witness ==
  /\ nSteps > 0
  /\ calls.keys >= 2
  /\ currentCar # 0
  /\ ~inputMgr.state.action

(***************************************************************************)
(* Spinning: a car body in the air whose angular velocity is rewritten     *)
(* between frames, through steps of several sub-steps each; some of the    *)
(* angular velocities turn the body by less than the threshold angle in a  *)
(* sub-step.                                                               *)
(***************************************************************************)
MaxSpinFrames == 2

AngularVelocities ==
  { ZeroVec, Vec(0, 0, 50), Vec(0, 30000, 0), Vec(10000, -20000, 5000),
    Vec(-70000, 0, 40000), Vec(3, 200000, -1) }

\* Car.update's "this.body.angularVelocity.addScaledVector(...)": an entity
\* writes the angular velocity of its body between two steps.
Spin(w) ==
  /\ pc = "idle"
  /\ Len(physics.bodies) > 0
  /\ physics' = [physics EXCEPT !.bodies[1].angularVelocity = w]
  /\ ret' = NoRet
  /\ UNCHANGED <<pc, stepDt, subDt, i, b, k, loc, nSteps, hist, rig, cars,
                 calls, lastTime, worldMgr>>
  /\ UNCHANGED appVars

NextSpin ==
  \/ \E w \in AngularVelocities :
       AddBody([CarBody(Vec(0, 20000, 0), CAR_SPORT) EXCEPT
                  !.angularVelocity = w], 1)
  \/ \E w \in AngularVelocities : Spin(w)
  \/ \E dt \in Dts : Step(dt, MaxSpinFrames)
  \/ SettleStepRun

SpecSpin == Init /\ [][NextSpin]_vars

(***************************************************************************)
(* The physics world with the player's capsule alone: at rest away from    *)
(* the colliders, inside the footprint of steps 0.3 and 0.6 high, and in   *)
(* contact with the side and with a corner of a wall, moving into it and   *)
(* away from it.                                                           *)
(***************************************************************************)
MaxCapsuleStatics == 2

MaxCapsuleSteps == 1

CapsuleBoxInputs == {Footprint(30000), Footprint(3000), Footprint(6000)}

CapsuleInputs ==
  { Standing(-20000, 0, ZeroVec),
    Standing(12000, 0, ZeroVec),
    Standing(25000, 9000, ZeroVec),
    Standing(8000, 0, Vec(20000, 0, 10000)),
    Standing(8000, 0, Vec(-20000, 0, 10000)),
    Standing(8000, 12000, Vec(20000, 0, -10000)) }

\* The steps of a running step(dt) call on capsule bodies.
CapsuleStepRun ==
  \/ SimulateIntegrate
  \/ SimulateEnd
  \/ ResolveCapsuleFloor
  \/ ResolveCapsuleStatic

\* The world once the player has registered its body.
InitCapsule ==
  /\ \E body \in CapsuleInputs : physics = addBody(NewPhysicsWorld, body)
  /\ pc = "idle"
  /\ stepDt = 0
  /\ subDt = 0
  /\ i = 0
  /\ b = 0
  /\ k = 0
  /\ loc = NoLoc
  /\ ret = NoRet
  /\ nSteps = 0
  /\ hist = NewHist(physics)
  /\ rig = NewCameraRig
  /\ cars = <<>>
  /\ calls = NoCalls
  /\ lastTime = 0
  /\ worldMgr = NewWorldManager
  /\ inputMgr = NewInputManager
  /\ player = NewPlayer(Vec(0, 50000, 0))
  /\ currentCar = 0

NextCapsule ==
  \/ \E box \in CapsuleBoxInputs : AddStaticCollider(box, MaxCapsuleStatics)
  \/ \E dt \in Dts : Step(dt, MaxCapsuleSteps)
  \/ CapsuleStepRun

SpecCapsule == InitCapsule /\ [][NextCapsule]_vars

(***************************************************************************)
(* Damping: one capsule body in a world without static colliders, walking  *)
(* on the ground or flying above it, through calls of step.                *)
(***************************************************************************)
MaxDampingSteps == 2

NextDamping ==
  \/ \E x \in {20000, -30000}, y \in {8500, 50000} :
       AddBody([PlayerBody(Vec(0, y, 0)) EXCEPT
                  !.velocity = Vec(x, 0, 10000),
                  !.isGrounded = (y = 8500)], 1)
  \/ \E dt \in Dts : Step(dt, MaxDampingSteps)
  \/ SimulateIntegrate
  \/ SimulateEnd
  \/ ResolveCapsuleFloor

SpecDamping == Init /\ [][NextDamping]_vars

(***************************************************************************)
(* The claims.                                                             *)
(***************************************************************************)
Bodies == physics.bodies

Statics == physics.staticColliders

\* The bounding box the resolver gives a body: capsuleBox or pBox.
BoundsOf(body) ==
  IF body.collider.type = "capsule" THEN CapsuleLocals(body).capsuleBox
  ELSE BoxLocals(body).pBox

\* No static collider of the list intersects (or touches) the body's box.
Untouched(body, statics) ==
  \A n \in 1..Len(statics) : ~IntersectsBox(BoundsOf(body), statics[n])

\* C1: a registered body of mass 0 keeps the position, velocity and
\* orientation it was registered with, whatever static colliders and other
\* bodies exist and however many steps have run or are running.
C1_StaticBodyUnchanged ==
  \A j \in 1..Len(Bodies) :
    Bodies[j].mass = 0 =>
      \E body \in BodyInputs :
        /\ body.mass = 0
        /\ Bodies[j].position = body.position
        /\ Bodies[j].velocity = body.velocity
        /\ Bodies[j].rotation = body.rotation

\* C1's case: two steps have returned on a world holding a body of mass 0
\* with nonzero velocity inside a static collider, beside a dynamic body.
C1_Witness ==
  /\ pc = "idle"
  /\ nSteps = 2
  /\ \E j, m \in 1..Len(Bodies) :
       /\ Bodies[j].mass = 0
       /\ Bodies[j].velocity # ZeroVec
       /\ Bodies[m].mass # 0
       /\ ~Untouched(Bodies[j], Statics)

\* A box body at rest on the ground plane.
BoxAtRest(body) ==
  /\ body.collider.type = "box"
  /\ body.mass > 0
  /\ body.position.y = body.collider.size.y
  /\ body.velocity = ZeroVec

\* C3: a box body of mass > 0 that rests on the ground plane, untouched by
\* any static collider, when step is called has position.y = halfExtent.y
\* and isGrounded = true when step has returned.
C3_BoxRestsGrounded ==
  (pc = "idle" /\ nSteps > 0) =>
    \A j \in 1..Len(hist.atCall.bodies) :
      (BoxAtRest(hist.atCall.bodies[j])
         /\ Untouched(hist.atCall.bodies[j], hist.atCall.staticColliders)) =>
        /\ Bodies[j].position.y = Bodies[j].collider.size.y
        /\ Bodies[j].isGrounded

\* How many sub-steps of the running step call have dealt with bodies[j]:
\* the i finished ones, and the current one for the bodies before the cursor
\* (and for the one in its resolver).
Dealt(j) ==
  IF pc = "idle" THEN i
  ELSE IF j < b \/ (j = b /\ pc # "simulate") THEN i + 1
  ELSE i

\* How many of them have called its resolver: in "resolveCapsule" and
\* "resolveBox" the call for bodies[b] is still to come.
Resolved(j) ==
  IF j = b /\ pc \in {"resolveCapsule", "resolveBox"} THEN Dealt(j) - 1
  ELSE Dealt(j)

\* The sub-stepping of step(dt), for whatever happens to a body in a
\* sub-step: 4 sub-steps of dt/4 one after another, each dealing once with
\* every dynamic body before the next starts, and none with a static body.
SubStepping ==
  /\ i \in 0..4
  /\ pc = "idle" => (nSteps = 0 /\ i = 0) \/ (nSteps > 0 /\ i = 4)
  /\ pc # "idle" => i < 4 /\ 4 * subDt = stepDt
  /\ \A j \in 1..Len(hist.integ) :
       IF Bodies[j].mass = 0
       THEN hist.integ[j] = 0 /\ hist.resol[j] = 0 /\ hist.voided[j] = 0
       ELSE /\ hist.integ[j] + hist.voided[j] = Dealt(j)
            /\ hist.resol[j] + hist.voided[j] = Resolved(j)

\* C4: one call step(dt) is exactly 4 sub-steps of dt/4, one after another,
\* and each sub-step runs simulate once on every dynamic body (integration,
\* then one call of the resolver) before the next sub-step starts; the only
\* sub-step that does otherwise with a body is one that finds it below
\* y = -20 and resets it, the first step of the per-sub-step algorithm.
C4_SubSteps ==
  /\ SubStepping
  /\ \A j \in 1..Len(hist.integ) :
       hist.voided[j] > 0 => hist.atCall.bodies[j].position.y < VoidY

\* C4's case: a step has returned after 4 sub-steps on two dynamic bodies,
\* one of them reset by the void guard in the first sub-step and integrated
\* in the other three.
C4_Witness ==
  /\ pc = "idle"
  /\ nSteps > 0
  /\ \E j, m \in 1..Len(hist.integ) :
       /\ hist.integ[j] = 4 /\ hist.resol[j] = 4
       /\ hist.voided[m] = 1 /\ hist.integ[m] = 3 /\ hist.resol[m] = 3

\* C7: a dynamic body with position.y < -20 when a sub-step comes to it is
\* put at (0, 10, 0) with velocity 0, keeps its orientation, angular velocity
\* and isGrounded, and the sub-step goes on to the next body without calling
\* a resolver; and nothing but the body under simulate's cursor changes
\* while step runs, so it ends the sub-step so.
C7_VoidGuard ==
  [][pc # "idle" =>
       \A j \in 1..Len(Bodies) :
         /\ j # b => physics'.bodies[j] = Bodies[j]
         /\ (pc = "simulate" /\ j = b /\ Bodies[j].mass # 0
               /\ Bodies[j].position.y < VoidY) =>
              /\ physics'.bodies[j].position = Vec(0, 10 * Scale, 0)
              /\ physics'.bodies[j].velocity = ZeroVec
              /\ physics'.bodies[j].rotation = Bodies[j].rotation
              /\ physics'.bodies[j].angularVelocity = Bodies[j].angularVelocity
              /\ physics'.bodies[j].isGrounded = Bodies[j].isGrounded
              /\ pc' = "simulate"
              /\ b' = b + 1]_vars

\* C7's case: the void guard has just reset a body that came to the
\* sub-step grounded, falling and spinning.
C7_Witness ==
  /\ pc = "simulate"
  /\ b > 1
  /\ hist.voided[b - 1] = 1
  /\ hist.integ[b - 1] = 0
  /\ Bodies[b - 1].position = Vec(0, 10 * Scale, 0)
  /\ Bodies[b - 1].isGrounded
  /\ Bodies[b - 1].angularVelocity # ZeroVec

\* A capsule body at rest on the ground plane.
CapsuleAtRest(body) ==
  /\ body.collider.type = "capsule"
  /\ body.mass > 0
  /\ body.position.y = body.collider.size.y \div 2
  /\ body.velocity = ZeroVec

\* C2: a capsule body of mass > 0 that rests on the ground plane, untouched
\* by any static collider, when step is called has position.y = height/2 and
\* isGrounded = true when step has returned.
C2_CapsuleRestsGrounded ==
  (pc = "idle" /\ nSteps > 0) =>
    \A j \in 1..Len(hist.atCall.bodies) :
      (CapsuleAtRest(hist.atCall.bodies[j])
         /\ Untouched(hist.atCall.bodies[j], hist.atCall.staticColliders)) =>
        /\ Bodies[j].position.y = Bodies[j].collider.size.y \div 2
        /\ Bodies[j].isGrounded

\* C2's case: a step has returned on a capsule that was at rest on the
\* ground, with static colliders registered but none touching it.
C2_Witness ==
  /\ pc = "idle"
  /\ nSteps > 0
  /\ Len(hist.atCall.staticColliders) > 0
  /\ \E j \in 1..Len(hist.integ) :
       /\ CapsuleAtRest(hist.atCall.bodies[j])
       /\ Untouched(hist.atCall.bodies[j], hist.atCall.staticColliders)
       /\ hist.integ[j] = 4

\* The gap between the top of a static box and the bottom of a capsule.
StepGap(body, staticBox) ==
  staticBox.max.y - (body.position.y - body.collider.size.y \div 2)

\* The resolver's loop is looking at a static box that intersects capsule j.
CapsuleMeets(j) ==
  /\ pc = "capsuleLoop"
  /\ j = b
  /\ IntersectsBox(loc.capsuleBox, Statics[k])
  /\ IntersectsBox(BoundsOf(Bodies[j]), Statics[k])

\* C8: in the capsule resolver's look at an intersecting static box whose top
\* is above the capsule's bottom by a gap g and below its upper body, the
\* capsule is lifted to box top + halfHeight, grounded and not pushed
\* horizontally when 0 < g <= 0.4, and is not lifted when g is just above 0.4.
C8_StepClimb ==
  [][\A j \in 1..Len(Bodies) :
       LET body == Bodies[j]
           after == physics'.bodies[j]
           g == StepGap(body, Statics[k])
           halfHeight == body.collider.size.y \div 2
       IN  (CapsuleMeets(j)
              /\ Statics[k].max.y < body.position.y + halfHeight - 1000) =>
             /\ (g > 0 /\ g <= MAX_STEP_HEIGHT) =>
                  /\ after.position.y = Statics[k].max.y + halfHeight
                  /\ after.isGrounded
                  /\ after.position.x = body.position.x
                  /\ after.position.z = body.position.z
             /\ (g > MAX_STEP_HEIGHT /\ g <= MAX_STEP_HEIGHT + 1) =>
                  /\ after.position.y = body.position.y
                  /\ after.isGrounded = body.isGrounded]_vars

\* The unit vector from the nearest point of the box's footprint to the
\* capsule's centre, and the distance between them.
FootprintDiff(body, staticBox) ==
  LET pos == body.position
  IN  Vec(pos.x - Max(staticBox.min.x, Min(pos.x, staticBox.max.x)), 0,
          pos.z - Max(staticBox.min.z, Min(pos.z, staticBox.max.z)))

\* The resolver's loop is looking at a wall-height static box whose side
\* capsule j penetrates: its centre is outside the footprint and nearer to
\* it than the radius.
CapsuleInWallSide(j) ==
  /\ CapsuleMeets(j)
  /\ StepGap(Bodies[j], Statics[k]) > MAX_STEP_HEIGHT
  /\ VecLength(FootprintDiff(Bodies[j], Statics[k])) > 0
  /\ VecLength(FootprintDiff(Bodies[j], Statics[k])) < Bodies[j].collider.size.x

\* C9: when the resolver's loop looks at a wall-height static box whose side
\* the capsule penetrates (0 < d < radius), a velocity with a component into
\* the wall loses that component and keeps its component along the wall and
\* its vertical component (to 0.002, the rounding of the unit normal on
\* velocities of this size); a velocity pointing away from the wall is not
\* changed.
C9_WallSlide ==
  [][\A j \in 1..Len(Bodies) :
       LET v == Bodies[j].velocity
           after == physics'.bodies[j].velocity
           n == Normalize(FootprintDiff(Bodies[j], Statics[k]))
           along == Vec(-n.z, 0, n.x)
       IN  CapsuleInWallSide(j) =>
             IF Dot(v, n) >= 0 THEN after = v
             ELSE /\ Abs(Dot(after, n)) <= 20
                  /\ Abs(Dot(after, along) - Dot(v, along)) <= 20
                  /\ after.y = v.y]_vars

\* C9's case: the capsule that walked into the side of the wall at x = 1
\* with a velocity into it and along it has been pushed out to one radius
\* from it and keeps only its velocity along the wall.
C9_Witness ==
  /\ hist.atCall.staticColliders # <<>>
  /\ \E j \in 1..Len(hist.integ) :
       /\ hist.resol[j] = 1
       /\ hist.atCall.bodies[j].velocity.x > 0
       /\ hist.atCall.bodies[j].velocity.z > 0
       /\ Bodies[j].velocity.x = 0
       /\ Bodies[j].velocity.z > 0
       /\ Bodies[j].position.x = 10000 - Bodies[j].collider.size.x

\* The world without its static colliders.
WithoutStatics(self) == [self EXCEPT !.staticColliders = <<>>]

\* What C6 has in common with its amended form: raycast returns a hit exactly
\* when direction.y < 0 and t = -origin.y / direction.y is in [0, maxLength];
\* the hit has dist = t, the point origin + direction * t and the normal
\* (0, 1, 0); the result is the same without the static colliders.
RaycastResult ==
  ret.call = "raycast" =>
    LET o == ret.origin
        d == ret.direction
        res == ret.result
    IN  /\ res.hit <=>
             /\ d.y < 0
             /\ Sgn(o.y) >= 0
             /\ DivFix(-o.y, d.y) <= ret.maxLength
        /\ res.hit =>
             /\ res.dist = DivFix(-o.y, d.y)
             /\ res.point.x = o.x + MulFix(d.x, res.dist)
             /\ res.point.z = o.z + MulFix(d.z, res.dist)
             /\ res.normal = Vec(0, Scale, 0)
        /\ res = raycast(WithoutStatics(physics), o, d, ret.maxLength)

\* C6 as claimed: raycast returns a hit exactly when direction.y < 0 and
\* t = -origin.y / direction.y is in [0, maxLength]; the hit has dist = t, a
\* point with y = 0 and the normal (0, 1, 0); the result does not depend on
\* the static colliders.
C6_RaycastPointOnPlane ==
  /\ RaycastResult
  /\ (ret.call = "raycast" /\ ret.result.hit) => ret.result.point.y = 0

\* C6 as amended: the same, with the point origin + direction * t, whose y is
\* 0 to the rounding of t and of the product, and exactly 0 for the vertical
\* ray (0, -1, 0).
C6_Raycast ==
  /\ RaycastResult
  /\ (ret.call = "raycast" /\ ret.result.hit) =>
       /\ Abs(ret.result.point.y) <= 2
       /\ ret.direction = Vec(0, -Scale, 0) => ret.result.point.y = 0

\* C6's case: a slanted ray from above an elevated static collider has hit
\* the ground plane under it.
C6_Witness ==
  /\ ret.call = "raycast"
  /\ ret.result.hit
  /\ ret.direction.x # 0
  /\ ret.origin.y > 0
  /\ \E n \in 1..Len(Statics) :
       Statics[n].min.y > 0 /\ Statics[n].max.y < ret.origin.y

\* C5: the static-collider list keeps its count, order and values through
\* every transition of a step call (the call itself, its integrations and
\* its resolutions, without bodies and with a capsule and a box colliding
\* with the colliders), every raycast and every camera update.
C5_StaticsUnchanged ==
  [][(pc # "idle" \/ pc' # "idle" \/ ret'.call = "raycast"
        \/ calls'.camera # calls.camera) =>
       physics'.staticColliders = Statics]_vars

\* C5's case: two static colliders are registered; a step on the capsule
\* and the car colliding with the wall has returned, leaving both moved by
\* their resolutions; the camera has probed and a raycast has returned.
C5_Witness ==
  /\ Len(Statics) = 2
  /\ pc = "idle"
  /\ nSteps > 0
  /\ Len(hist.atCall.staticColliders) = 2
  /\ hist.resol = <<4, 4>>
  /\ Bodies[1].position.x < hist.atCall.bodies[1].position.x
  /\ Bodies[2].position.y < hist.atCall.bodies[2].position.y
  /\ calls.camera > 0
  /\ rig.mode = "THIRD_PERSON"
  /\ rig.currentPos # ZeroVec
  /\ ret.call = "raycast"

\* update's forwardSpeed: the velocity along the body's forward axis.
ForwardSpeed(body) ==
  Dot(body.velocity, ApplyQuaternion(Vec(0, 0, -Scale), body.rotation))

\* C10: for a car of any shipped configuration that starts upright at rest
\* on the ground plane, engine on and throttle held, every one of the first
\* frames (step(dt), then Car.update(dt)) ends with a forward speed strictly
\* greater than the frame began with.
C10_ForwardSpeedIncreases ==
  [][(calls'.car = calls.car + 1 /\ Statics = <<>> /\ cars[1].engineOn) =>
       ForwardSpeed(physics'.bodies[1]) > ForwardSpeed(hist.atCall.bodies[1])
    ]_vars

\* The suspension ray of wheel n of a car, as update casts it from the
\* body's pose.
SuspensionRay(car, body, n) ==
  raycast(physics,
          VecAdd(ApplyQuaternion(MountPoints[n], body.rotation), body.position),
          ApplyQuaternion(Vec(0, -Scale, 0), body.rotation),
          car.config.suspensionLength + car.config.wheelRadius)

\* The spring force of a wheel whose ray returned hit, in newtons.
SpringForce(config, hit) ==
  IF hit.hit
  THEN MulDivInt(
         Max(0, Min(Scale, Scale - DivFix(hit.dist - config.wheelRadius,
                                          config.suspensionLength))),
         config.suspensionStiffness, Scale)
  ELSE 0

\* Every wheel of every car has a ground hit, and the spring forces of the
\* four wheels add up to the body's weight, mass * 25, to 5 %.
Settled ==
  \A c \in 1..Len(cars) :
    LET car == cars[c]
        body == Bodies[car.body]
        F(n) == SpringForce(car.config, SuspensionRay(car, body, n))
    IN  /\ \A n \in 1..4 : SuspensionRay(car, body, n).hit
        /\ 20 * Abs(F(1) + F(2) + F(3) + F(4) - body.mass * 25)
             <= body.mass * 25

Probe ==
  LET unobstructed == VecAdd(ret.targetPos, CamOffset(ret.inputs))
      rayStart == VecAdd(ret.targetPos, Vec(0, Scale, 0))
      direction == Normalize(VecSub(unobstructed, ret.targetPos))
      desired == DesiredPos(ret.targetPos, ret.inputs, physics)
  IN  [fullDist |-> VecLength(VecSub(ret.targetPos, unobstructed)),
       hits |-> ProbeHits(physics, rayStart, direction),
       along |-> Dot(VecSub(desired, rayStart), direction),
       dist |-> VecLength(VecSub(desired, rayStart))]

\* A static collider lies on the probe ray nearer than the unobstructed
\* camera position.
Occluded ==
  /\ ret.call = "update"
  /\ ret.mode = "THIRD_PERSON"
  /\ \E d \in Probe.hits : d < Probe.fullDist

\* C12: in third-person mode, when a static box lies on the probe ray
\* between the camera target and the unobstructed camera position, the
\* desired camera position lies on the ray at a distance from the ray start
\* that is strictly smaller than the unobstructed distance and strictly
\* greater than zero, on the camera's side of the ray start.
C12_ProbeKeepsSide ==
  Occluded => /\ Probe.dist < Probe.fullDist
              /\ Probe.dist > 0
              /\ Probe.along > 0

\* C13: every body's orientation, unit at construction, stays within
\* rounding of unit length through every sub-step, whatever the angular
\* velocities: a sub-step that turns the body renormalizes the composed
\* orientation, and one whose angle is at most the threshold leaves the
\* orientation as it was.
C13_UnitOrientation ==
  \A j \in 1..Len(Bodies) : Abs(QuatLength(Bodies[j].rotation) - Scale) <= 2

\* C13's case: two steps have returned on a body that was turned about
\* several axes, its angular velocity rewritten in between.
C13_Witness ==
  /\ pc = "idle"
  /\ nSteps = MaxSpinFrames
  /\ Len(Bodies) = 1
  /\ Bodies[1].rotation.x # 0
  /\ Bodies[1].rotation.y # 0
  /\ Bodies[1].rotation.z # 0
  /\ C13_UnitOrientation

\* The car update that has just returned, and the body it left.
Updated == ret.call = "carUpdate"

UpdatedBody == Bodies[ret.car.body]

\* The ray of the n-th wheel pass found nothing within the suspension's
\* reach.
Missed(n) ==
  ~raycast(physics, ret.log[n].origin, ret.log[n].down,
           ret.car.config.suspensionLength + ret.car.config.wheelRadius).hit

\* C14: a wheel whose raycast returns no hit contributes no suspension,
\* lateral or longitudinal force (no impulse at its mount, and three for
\* every other wheel), and the update completes; if none of the four
\* wheels has a hit, the update leaves the body's angular velocity as it
\* was and changes its velocity by the final drag term only.
C14_NoHitNoForce ==
  Updated =>
    LET missed == {n \in 1..4 : Missed(n)}
        v == ret.body.velocity
        drag == -MulFix(MulFix(ret.car.config.drag, VecLength(v)), ret.dt)
    IN  /\ Len(ret.log) = 4
        /\ \A n \in missed : \A m \in 1..Len(ret.impulses) :
             ret.impulses[m].pos # ret.log[n].origin
        /\ Len(ret.impulses) = 3 * (4 - Cardinality(missed))
        /\ missed = 1..4 =>
             /\ UpdatedBody.angularVelocity = ret.body.angularVelocity
             /\ UpdatedBody.velocity = AddScaledVector(v, v, drag)
             /\ UpdatedBody.position = ret.body.position

\* C14's cases: an update has returned for a tumbling car in the air, none
\* of whose wheels had a hit, its velocity changed by the drag; and one for
\* a car with the front wheels on the ground and the rear wheels off it.
C14_Witness ==
  /\ Updated
  /\ \A n \in 1..4 : Missed(n)
  /\ ret.body.angularVelocity # ZeroVec
  /\ UpdatedBody.velocity # ret.body.velocity
  /\ ret.car.engineOn /\ ret.inputs.forward

C14_WitnessSomeWheels ==
  /\ Updated
  /\ \E n, m \in 1..4 : Missed(n) /\ ~Missed(m)
  /\ Len(ret.impulses) = 6

\* The place in the impulse list of the suspension impulse of wheel n, a
\* wheel with a hit: every wheel with a hit pushes three impulses.
SuspensionImpulse(n) ==
  ret.impulses[3 * Cardinality({m \in 1..(n - 1) : ret.log[m].hit}) + 1]

\* C18: for every wheel and every orientation of the body, the suspension
\* ray is cast from the mount point along world -Y (0, -1, 0), and the
\* suspension force is applied at the mount point along world +Y (0, 1, 0).
C18_WorldDown ==
  Updated =>
    \A n \in 1..4 :
      /\ ret.log[n].down = Vec(0, -Scale, 0)
      /\ ret.log[n].hit =>
           /\ SuspensionImpulse(n).pos = ret.log[n].origin
           /\ SuspensionImpulse(n).force =
                Vec(0, ret.log[n].suspensionForce, 0)

\* The throttle of the update that has returned.
Throttle ==
  IF ~ret.car.engineOn THEN 0
  ELSE IF ret.inputs.backward THEN -5000
  ELSE IF ret.inputs.forward THEN Scale ELSE 0

\* longForceMag of wheel n without the brake's part.
EnginePart(n) ==
  ret.log[n].longForceMag
    + (IF ret.inputs.brake
       THEN Sgn(ret.log[n].vForward) * ret.car.config.brakeForce * 20
       ELSE 0)

\* C19: with the engine on and a nonzero throttle, a wheel in ground
\* contact gets the engine force throttle * enginePower * (1 -
\* min(|vForward| / 60, 0.8)) exactly when it is a rear wheel or the
\* vehicle is a truck; a front wheel of a sedan or a sport car gets none
\* (without the brake, its longitudinal impulse is zero).
C19_DrivenWheels ==
  (Updated /\ Throttle # 0) =>
    \A n \in 1..4 : ret.log[n].hit =>
      LET cfg == ret.car.config
          slip == Abs(ret.log[n].vForward)
          torqueFactor == Scale - Min(DivInt(slip, 60), 8000)
          full == MulDivInt(torqueFactor,
                            MulDivInt(Throttle, cfg.enginePower, Scale), Scale)
          long == ret.impulses[3 * Cardinality({m \in 1..n : ret.log[m].hit})]
      IN  IF n >= 3 \/ cfg.type = "truck"
          THEN /\ EnginePart(n) = full
               /\ full # 0
               /\ ~ret.inputs.brake => long.force # ZeroVec
          ELSE /\ EnginePart(n) = 0
               /\ ~ret.inputs.brake => long.force = ZeroVec

\* C19's case: a sedan or sport car drives forward with all four wheels on
\* the ground and moving; the rear wheels got the engine force, reduced by
\* the slip, and the front wheels none.
C19_Witness ==
  /\ Updated
  /\ Throttle = Scale
  /\ ~ret.inputs.brake
  /\ ret.car.config.type # "truck"
  /\ \A n \in 1..4 : ret.log[n].hit /\ ret.log[n].vForward # 0
  /\ ret.log[1].longForceMag = 0
  /\ ret.log[3].longForceMag > 0
  /\ ret.log[3].longForceMag < ret.car.config.enginePower

\* resolveBox looks at a static collider that intersects the body's box:
\* the overlap extents, and what the iteration did to the body.
BoxPush ==
  LET sz == GetSize(Intersect(loc.pBox, Statics[k]))
      from == Bodies[b]
      to == physics'.bodies[b]
  IN  [sz |-> sz,
       least |-> Min(sz.x, Min(sz.y, sz.z)),
       moved |-> VecSub(to.position, from.position),
       v |-> from.velocity,
       w |-> to.velocity]

BoxMeets == pc = "boxLoop" /\ IntersectsBox(loc.pBox, Statics[k])

Penetration(body, staticBox) ==
  LET pos == body.position
      radius == body.collider.size.x
  IN  [x |-> Min(pos.x - staticBox.min.x, staticBox.max.x - pos.x) + radius,
       z |-> Min(pos.z - staticBox.min.z, staticBox.max.z - pos.z) + radius,
       faceX |-> Sgn((pos.x - staticBox.min.x) - (staticBox.max.x - pos.x)),
       faceZ |-> Sgn((pos.z - staticBox.min.z) - (staticBox.max.z - pos.z))]

\* The resolver's loop is looking at an intersecting static box that is not
\* a climbable step (by the step height the resolver measured from the
\* capsule's bottom before its loop), with the centre of capsule j inside
\* its footprint.
CapsuleInFootprint(j) ==
  /\ CapsuleMeets(j)
  /\ ~ /\ Statics[k].max.y - loc.playerBottom > 0
       /\ Statics[k].max.y - loc.playerBottom <= MAX_STEP_HEIGHT
       /\ Statics[k].max.y <
            Bodies[j].position.y + Bodies[j].collider.size.y \div 2 - 1000
  /\ VecLength(FootprintDiff(Bodies[j], Statics[k])) = 0

\* C20: when the resolver's loop looks at an intersecting static box that
\* is not a climbable step and the capsule's centre is inside its
\* footprint, the capsule is displaced along exactly one horizontal axis,
\* the one with the smaller penetration, toward the nearer face, by more
\* than nothing and at most that penetration; nothing else of the body
\* changes and the iteration completes.
C20_DeepPenetration ==
  [][\A j \in 1..Len(Bodies) :
       LET body == Bodies[j]
           after == physics'.bodies[j]
           pen == Penetration(body, Statics[k])
           mx == after.position.x - body.position.x
           mz == after.position.z - body.position.z
       IN  CapsuleInFootprint(j) =>
             /\ after = [body EXCEPT !.position.x = @ + mx,
                                     !.position.z = @ + mz]
             /\ \/ /\ pen.x <= pen.z
                   /\ mz = 0
                   /\ Abs(mx) > 0 /\ Abs(mx) <= pen.x
                   /\ pen.faceX # 0 => Sgn(mx) = pen.faceX
                \/ /\ pen.z <= pen.x
                   /\ mx = 0
                   /\ Abs(mz) > 0 /\ Abs(mz) <= pen.z
                   /\ pen.faceZ # 0 => Sgn(mz) = pen.faceZ]_vars

\* C20's case: the capsule that stood inside the wall's footprint, nearest
\* to the wall's far face along z, has been pushed towards that face by
\* half its penetration and not along x.
C20_Witness ==
  /\ pc = "idle"
  /\ nSteps > 0
  /\ Len(Statics) > 0
  /\ hist.atCall.bodies[1].position.x = 25000
  /\ hist.atCall.bodies[1].position.z = 9000
  /\ Bodies[1].position.x = 25000
  /\ Bodies[1].position.z > 9000
  /\ Bodies[1].position.z < 9000 + 4500

\* C16: every dt that the frame driver passes to step, and so to the
\* updates of that frame, satisfies 0 < dt <= 0.05, whatever the frame
\* timestamps.
C16_FrameDt == nSteps > 0 => (stepDt > 0 /\ stepDt <= 500)


(***************************************************************************)
(* C15.  Nothing ever takes a body or a static collider off the physics    *)
(* world's lists: whatever the world is stepped through and whichever      *)
(* chunks the world manager loads or unloads, each list keeps every        *)
(* element it had, in its place, and a body stays the body it was (same    *)
(* mass, same collider).                                                   *)
(***************************************************************************)
SameBody(old, new) == old.mass = new.mass /\ old.collider = new.collider

ListsOnlyGrow ==
  /\ Len(physics'.staticColliders) >= Len(Statics)
  /\ \A j \in 1..Len(Statics) : physics'.staticColliders[j] = Statics[j]
  /\ Len(physics'.bodies) >= Len(Bodies)
  /\ \A j \in 1..Len(Bodies) : SameBody(Bodies[j], physics'.bodies[j])

C15_ListsOnlyGrow == [][ListsOnlyGrow]_vars

\* The chunk of the world manager's map a static collider stands in.
ChunkOf(box) ==
  <<GetCenter(box).x \div (chunkSize * Scale),
    GetCenter(box).z \div (chunkSize * Scale)>>

\* The world manager has unloaded chunks: static colliders and pedestrians'
\* bodies of chunks that are no longer in its map are still registered.
C15_Witness ==
  /\ ret.call = "worldUpdate"
  /\ nSteps > 1
  /\ ret.chunks \ worldMgr.chunks # {}
  /\ \E j \in 1..Len(Statics) : ChunkOf(Statics[j]) \in ret.chunks \ worldMgr.chunks
  /\ \E j \in 1..Len(worldMgr.pedestrians) :
       LET body == Bodies[worldMgr.pedestrians[j]]
       IN  <<body.position.x \div (chunkSize * Scale),
             body.position.z \div (chunkSize * Scale)>> \notin worldMgr.chunks


(***************************************************************************)
(* C21.  Over one full step(dt) the velocity of a body of a mass is damped *)
(* by 5 % where the body is grounded and by 1 % where it is airborne: of a *)
(* body that nothing pushes sideways, and whose isGrounded flag is after   *)
(* the step what it was before, the velocity along x is 0.95 resp. 0.99    *)
(* times what it was, to the rounding of the sub-steps.                    *)
(***************************************************************************)
StepDamping(grounded) == IF grounded THEN Scale - 500 ELSE Scale - 100

C21_DampingPerStep ==
  (pc = "idle" /\ nSteps > 0 /\ Len(Statics) = 0) =>
    \A j \in 1..Len(hist.atCall.bodies) :
      LET before == hist.atCall.bodies[j]
      IN  (before.mass # 0 /\ hist.voided[j] = 0
           /\ before.isGrounded = Bodies[j].isGrounded) =>
            Abs(Bodies[j].velocity.x
                - MulFix(before.velocity.x, StepDamping(before.isGrounded)))
              <= steps


(***************************************************************************)
(* C22.  Car.update changes, in the physics world, the velocity and the    *)
(* angular velocity of the car's own body and nothing else: that body's    *)
(* position, orientation and other fields, every other body and both lists *)
(* are after the update what they were before.                             *)
(***************************************************************************)
C22_OnlyOwnVelocities ==
  [][calls'.car # calls.car =>
       LET bi == ret'.car.body
       IN  physics' =
             [physics EXCEPT
                !.bodies[bi].velocity = physics'.bodies[bi].velocity,
                !.bodies[bi].angularVelocity =
                   physics'.bodies[bi].angularVelocity]]_vars

\* An update has applied impulses: velocity and angular velocity of the
\* car's body have changed, its position and orientation have not.
C22_Witness ==
  /\ Updated
  /\ Len(ret.impulses) > 0
  /\ UpdatedBody.velocity # ret.body.velocity
  /\ UpdatedBody.angularVelocity # ret.body.angularVelocity
  /\ UpdatedBody.position = ret.body.position
  /\ UpdatedBody.rotation = ret.body.rotation


(***************************************************************************)
(* C23.  A car of a shipped configuration that stands upright with its     *)
(* body resting on the ground plane, the centre at half its height where   *)
(* the ground clamp of step leaves it, has a ground hit for each of its    *)
(* four wheels in Car.update.                                              *)
(***************************************************************************)
C23_WheelsReachGround ==
  (/\ Updated
   /\ ret.body.rotation = IdentityQuat
   /\ ret.body.position.y = ret.car.config.height \div 2) =>
    \A n \in 1..4 : ret.log[n].hit


(***************************************************************************)
(* C24.  Box resolution of a body against the single static box of the     *)
(* world, which its bounding box intersects, leaves the body's bounding    *)
(* box without an overlap of positive volume with that static box.         *)
(***************************************************************************)
\* Two boxes share a volume.
OverlapsInside(a, c) ==
  /\ Min(a.max.x, c.max.x) > Max(a.min.x, c.min.x)
  /\ Min(a.max.y, c.max.y) > Max(a.min.y, c.min.y)
  /\ Min(a.max.z, c.max.z) > Max(a.min.z, c.min.z)

C24_BoxPushedClear ==
  [][(BoxMeets /\ Len(Statics) = 1) =>
       ~OverlapsInside(
          SetFromCenterAndSize(physics'.bodies[b].position, Bodies[b].size),
          Statics[k])]_vars


(***************************************************************************)
(* C25.  After every step(dt), every capsule body of a mass that was in    *)
(* the world when step was called has its centre at least half its height  *)
(* above the ground plane, whatever static colliders are registered and    *)
(* wherever the body was and however it moved before.                      *)
(***************************************************************************)
C25_CapsuleAboveGround ==
  (pc = "idle" /\ nSteps > 0) =>
    \A j \in 1..Len(hist.atCall.bodies) :
      (Bodies[j].mass # 0 /\ Bodies[j].collider.type = "capsule") =>
        Bodies[j].position.y >= Bodies[j].collider.size.y \div 2

\* A step is over in which gravity took a capsule that stood on the ground
\* below half its height in every sub-step, among static colliders.
C25_Witness ==
  /\ pc = "idle"
  /\ nSteps > 0
  /\ Len(Statics) > 0
  /\ \E j \in 1..Len(hist.atCall.bodies) :
       /\ Bodies[j].collider.type = "capsule"
       /\ hist.resol[j] = steps
       /\ hist.atCall.bodies[j].position.y = Bodies[j].collider.size.y \div 2
       /\ Bodies[j].isGrounded


(***************************************************************************)
(* C26.  With the engine off, what Car.update does to the car's body and   *)
(* steering angle does not depend on the input snapshot: the update with   *)
(* any other keys held, from the same state, leaves the same velocity,     *)
(* angular velocity and steering angle.                                    *)
(***************************************************************************)
C26_EngineOffIgnoresInputs ==
  (Updated /\ ~ret.car.engineOn) =>
    \A inputs \in WheelInputs \cup {[NoInputs EXCEPT !.brake = TRUE]} :
      LET other == carUpdate(ret.car, ret.body, ret.dt, inputs, physics)
      IN  /\ other.body.velocity = UpdatedBody.velocity
          /\ other.body.angularVelocity = UpdatedBody.angularVelocity
          /\ other.car.steeringAngle = cars[1].steeringAngle


(***************************************************************************)
(* C28.  After every call of WorldManager.update(dt, p), the first one     *)
(* included, the loaded chunks are the 25 chunks around the chunk that     *)
(* holds p, all of them and no other.                                      *)
(***************************************************************************)
ChunksAround(p) ==
  {<<p.x \div (chunkSize * Scale) + x, p.z \div (chunkSize * Scale) + z>> :
     x \in -loadDistance..loadDistance, z \in -loadDistance..loadDistance}

C28_LoadedChunks ==
  ret.call = "worldUpdate" => worldMgr.chunks = ChunksAround(ret.playerPos)


(***************************************************************************)
(* C29.  From a steering angle of 0, through calls of Car.update with dt   *)
(* in (0, 0.05], the steering angle stays within 45 degrees either way,    *)
(* and each update moves it from where it was towards the target           *)
(* steerInput * 45 deg / (1 + speed / 20) by the fraction 5 * dt of the    *)
(* difference, never beyond the target.                                    *)
(***************************************************************************)
TargetSteer ==
  LET steerInput == IF ~ret.car.engineOn THEN 0
                    ELSE IF ret.inputs.right THEN -1
                    ELSE IF ret.inputs.left THEN 1 ELSE 0
      speed == VecLength(ret.body.velocity)
  IN  (steerInput * (Pi \div 4) * Scale) \div (Scale + speed \div 20)

C29_SteeringFollowsTarget ==
  (Updated /\ ret.dt > 0 /\ ret.dt <= 500) =>
    LET old == ret.car.steeringAngle
        new == cars[1].steeringAngle
    IN  /\ Abs(new) <= Pi \div 4
        /\ Min(old, TargetSteer) <= new
        /\ new <= Max(old, TargetSteer)
        /\ Abs(new - old - ((TargetSteer - old) * 5 * ret.dt) \div Scale) <= 2

\* The wheel has been turned one way and is on its way back to the other.
C29_Witness ==
  /\ Updated
  /\ calls.car > 1
  /\ ret.car.steeringAngle > 0
  /\ TargetSteer < 0
  /\ cars[1].steeringAngle < ret.car.steeringAngle
  /\ VecLength(ret.body.velocity) > 0

====
